---- MODULE Spec2Model ----
(***************************************************************************)
(* Cloud cost explorer: the aggregation layer of the dashboard.            *)
(*                                                                         *)
(* The state is a snapshot of the two pricing tables (on-demand-vm-pricing *)
(* and storage-pricing), the last answer produced by a handler or page,    *)
(* and the state of a browser session (query cache and page state).        *)
(* Prices are naturals counted in price units (one unit = the sixth        *)
(* decimal of a dollar, the grid of toFixed(6)).  Averages computed by the *)
(* database are exact rationals [n, d]; sums computed in JavaScript are    *)
(* binary floating point, modelled with a mantissa of MantBits bits.       *)
(***************************************************************************)
EXTENDS Integers, Sequences, FiniteSets

VARIABLES vmStore, storageStore, response, client

vars == <<vmStore, storageStore, response, client>>

(***************************************************************************)
(* Bounds of the model.                                                    *)
(***************************************************************************)
MaxVMs == 3

MaxStorage == 2

MaxPrice == 3

MantBits == 2

(***************************************************************************)
(* Enumerations of prisma/schema.prisma and the SQL NULL.                  *)
(***************************************************************************)
Providers == {"AWS", "AZURE", "GCP"}

Regions == {"asia", "europe"}

AccessTiers == {"FREQUENT_ACCESS", "OCCASIONAL_ACCESS", "RARE_ACCESS", "ARCHIVE"}

NULL == -1

NullStr == "<null>"

(***************************************************************************)
(* Strings are compared by localeCompare; the model orders the strings it  *)
(* uses by their position in this lexically sorted list.                   *)
(***************************************************************************)
Lexical == <<"AWS", "AZURE", "GCP", "a1.small", "asia", "d2.std", "europe", "n1.std">>

Rank(s) == CHOOSE i \in DOMAIN Lexical : Lexical[i] = s

Sign(x) == IF x < 0 THEN -1 ELSE IF x > 0 THEN 1 ELSE 0

localeCompare(a, b) == Sign(Rank(a) - Rank(b))

(***************************************************************************)
(* Exact rationals, used for the averages the database returns.            *)
(***************************************************************************)
RECURSIVE Gcd(_, _)
Gcd(a, b) == IF b = 0 THEN a ELSE Gcd(b, a % b)

Rat(n, d) == LET g == Gcd(n, d) IN [n |-> n \div g, d |-> d \div g]

NullRat == [n |-> 0, d |-> 0]

ZeroRat == [n |-> 0, d |-> 1]

RatLess(x, y) == x.n * y.d < y.n * x.d

RatOfInt(k) == [n |-> k, d |-> 1]

(***************************************************************************)
(* Helpers over sequences.                                                 *)
(***************************************************************************)
SeqToSet(s) == {s[i] : i \in DOMAIN s}

Distinct(s) ==
  LET F[i \in 0..Len(s)] ==
        IF i = 0 THEN <<>>
        ELSE IF \E j \in 1..(i - 1) : s[j] = s[i] THEN F[i - 1]
        ELSE Append(F[i - 1], s[i])
  IN F[Len(s)]

SumSeq(s) ==
  LET F[i \in 0..Len(s)] == IF i = 0 THEN 0 ELSE F[i - 1] + s[i]
  IN F[Len(s)]

MinSet(S) == CHOOSE x \in S : \A y \in S : x <= y

MaxSet(S) == CHOOSE x \in S : \A y \in S : x >= y

Take(s, n) == SubSeq(s, 1, IF n < Len(s) THEN n ELSE Len(s))

Orderings(s) ==
  {[i \in DOMAIN s |-> s[p[i]]] : p \in {q \in [DOMAIN s -> DOMAIN s] :
                                            \A i, j \in DOMAIN s : q[i] = q[j] => i = j}}

(***************************************************************************)
(* The rows of the two tables.  An instance type (vm_name) belongs to one  *)
(* provider and fixes the vCPU count and the memory; it is offered in any  *)
(* region where it is available, at any price.  A price is a JavaScript number: FloatRound is     *)
(* round-to-nearest, ties-to-even, on a mantissa of MantBits bits.         *)
(***************************************************************************)
RECURSIVE Exponent(_)
Exponent(x) == IF x < 2^MantBits THEN 0 ELSE 1 + Exponent(x \div 2)

FloatRound(x) ==
  LET step == 2^Exponent(x)
      lo == (x \div step) * step
      rem == x - lo
  IN IF 2 * rem < step THEN lo
     ELSE IF 2 * rem > step THEN lo + step
     ELSE IF (lo \div step) % 2 = 0 THEN lo ELSE lo + step

FloatAdd(a, b) == FloatRound(a + b)

IsFloat(x) == FloatRound(x) = x

Prices == {p \in 0..MaxPrice : IsFloat(p)}

InstanceTypes ==
  { [vm_name |-> "a1.small", provider_name |-> "AWS", virtual_cpu_count |-> 1, memory_gb |-> 4,
     regions |-> {"asia", "europe"}],
    [vm_name |-> "d2.std", provider_name |-> "AZURE", virtual_cpu_count |-> 2, memory_gb |-> 2,
     regions |-> {"europe"}],
    [vm_name |-> "n1.std", provider_name |-> "GCP", virtual_cpu_count |-> 2, memory_gb |-> 4,
     regions |-> {"asia"}] }

OnDemandVMPricing ==
  UNION { { [vm_name |-> t.vm_name, provider_name |-> t.provider_name,
             virtual_cpu_count |-> t.virtual_cpu_count, memory_gb |-> t.memory_gb,
             price_per_hour_usd |-> p, region |-> r, os_type |-> "LINUX"] :
            p \in Prices, r \in t.regions } : t \in InstanceTypes }

(* Rows of the storage-pricing table.  The schema makes access_tier a      *)
(* non-null enum and storage_class a non-null string (the empty string is  *)
(* a legal value); the three prices are nullable.                          *)
StorageKinds ==
  { [service_name |-> "blob", storage_class |-> "STANDARD", access_tier |-> "FREQUENT_ACCESS",
     region |-> "europe", read_price |-> 1, write_price |-> NULL],
    [service_name |-> "blob", storage_class |-> "", access_tier |-> "ARCHIVE",
     region |-> "asia", read_price |-> 2, write_price |-> 1],
    [service_name |-> "disk", storage_class |-> "Premium", access_tier |-> "RARE_ACCESS",
     region |-> "europe", read_price |-> NULL, write_price |-> NULL] }

StoragePricing ==
  { [provider_name |-> pr, service_name |-> k.service_name, storage_class |-> k.storage_class,
     access_tier |-> k.access_tier, capacity_price |-> c, read_price |-> k.read_price,
     write_price |-> k.write_price, region |-> k.region] :
    pr \in {"AWS", "AZURE"}, k \in StorageKinds, c \in {NULL} \cup Prices }

SeqsUpTo(S, n) == UNION {[1..k -> S] : k \in 0..n}

(***************************************************************************)
(* Prisma queries used by the service, with the semantics of the SQL they  *)
(* issue: groupBy returns one row per group (groups in the order the scan  *)
(* meets them), _avg/_min/_max skip NULLs and are NULL over no values,     *)
(* _count of a non-nullable column counts the rows of the group.           *)
(***************************************************************************)
RowsOf(store, provider) == SelectSeq(store, LAMBDA r : r.provider_name = provider)

PriceSeq(rows) == [i \in DOMAIN rows |-> rows[i].price_per_hour_usd]

NullAsZeroCapacity(rows) ==
  [i \in DOMAIN rows |-> IF rows[i].capacity_price = NULL THEN 0 ELSE rows[i].capacity_price]

NonNullCapacity(rows) ==
  LET priced == SelectSeq(rows, LAMBDA r : r.capacity_price # NULL)
  IN [i \in DOMAIN priced |-> priced[i].capacity_price]

AvgOf(values) == IF Len(values) = 0 THEN NullRat ELSE Rat(SumSeq(values), Len(values))

MinOf(values) == IF Len(values) = 0 THEN NULL ELSE MinSet(SeqToSet(values))

MaxOf(values) == IF Len(values) = 0 THEN NULL ELSE MaxSet(SeqToSet(values))

vmStatsQueryByRegion(store) ==
  LET groups == Distinct([i \in DOMAIN store |->
                            [provider_name |-> store[i].provider_name, region |-> store[i].region]])
  IN [g \in DOMAIN groups |->
        LET prices == PriceSeq(SelectSeq(store, LAMBDA r :
                                 r.provider_name = groups[g].provider_name
                                 /\ r.region = groups[g].region))
        IN [provider_name |-> groups[g].provider_name,
            count_id |-> Len(prices),
            avg_price |-> AvgOf(prices),
            min_price |-> MinOf(prices),
            max_price |-> MaxOf(prices)]]

vmStatsQuery(store) ==
  LET groups == Distinct([i \in DOMAIN store |-> store[i].provider_name])
  IN [g \in DOMAIN groups |->
        LET prices == PriceSeq(RowsOf(store, groups[g]))
        IN [provider_name |-> groups[g],
            count_id |-> Len(prices),
            avg_price |-> AvgOf(prices),
            min_price |-> MinOf(prices),
            max_price |-> MaxOf(prices)]]

storageStatsQuery(store) ==
  LET groups == Distinct([i \in DOMAIN store |-> store[i].provider_name])
  IN [g \in DOMAIN groups |->
        LET rows == RowsOf(store, groups[g])
        IN [provider_name |-> groups[g],
            count_service_name |-> Len(rows),
            avg_capacity_price |-> AvgOf(NonNullCapacity(rows))]]

regionStatsQuery(store) ==
  LET groups == Distinct([i \in DOMAIN store |->
                            [provider_name |-> store[i].provider_name, region |-> store[i].region]])
  IN [g \in DOMAIN groups |->
        [provider_name |-> groups[g].provider_name,
         region |-> groups[g].region,
         count_id |-> Len(SelectSeq(store, LAMBDA r : r.provider_name = groups[g].provider_name
                                                       /\ r.region = groups[g].region))]]

(***************************************************************************)
(* JavaScript's `x || 0` on a nullable number: null and 0 both give 0.     *)
(***************************************************************************)
OrZero(x) == IF x = NULL \/ x = 0 THEN 0 ELSE x

OrZeroRat(x) == IF x.d = 0 \/ x.n = 0 THEN ZeroRat ELSE x

(***************************************************************************)
(* services/dashboard: getProviderStats.                                   *)
(***************************************************************************)
FindStorage(storageStats, provider) ==
  LET hits == SelectSeq(storageStats, LAMBDA s : s.provider_name = provider)
  IN IF Len(hits) = 0 THEN [found |-> FALSE, count_service_name |-> 0, avg_capacity_price |-> NullRat]
     ELSE [found |-> TRUE, count_service_name |-> hits[1].count_service_name,
           avg_capacity_price |-> hits[1].avg_capacity_price]

ProviderStatsEntrySwapped(vm, st, regs) ==
  [provider |-> vm.provider_name,
   vm_count |-> vm.count_id,
   storage_services |-> OrZero(st.count_service_name),
   avg_vm_price |-> OrZeroRat(vm.avg_price),
   min_vm_price |-> OrZero(vm.max_price),
   max_vm_price |-> OrZero(vm.min_price),
   avg_storage_price |-> OrZeroRat(st.avg_capacity_price),
   regions |-> [k \in DOMAIN regs |-> regs[k].region]]

ProviderStatsEntry(vm, st, regs) ==
  [provider |-> vm.provider_name,
   vm_count |-> vm.count_id,
   storage_services |-> OrZero(st.count_service_name),
   avg_vm_price |-> OrZeroRat(vm.avg_price),
   min_vm_price |-> OrZero(vm.min_price),
   max_vm_price |-> OrZero(vm.max_price),
   avg_storage_price |-> OrZeroRat(st.avg_capacity_price),
   regions |-> [k \in DOMAIN regs |-> regs[k].region]]

getProviderStats(vms, storage) ==
  LET vmStats == vmStatsQuery(vms)
      storageStats == storageStatsQuery(storage)
      regionRows == regionStatsQuery(vms)
  IN [i \in DOMAIN vmStats |->
        ProviderStatsEntry(vmStats[i],
                           FindStorage(storageStats, vmStats[i].provider_name),
                           SelectSeq(regionRows,
                                     LAMBDA r : r.provider_name = vmStats[i].provider_name))]

(***************************************************************************)
(* Comparators.  A comparator returns -1, 0, 1 or NaNCmp (the difference   *)
(* of two Infinities).  The ranking functions of best-value-matrix.tsx: a  *)
(* ratio with price 0 is Infinity.                                         *)
(***************************************************************************)
NaNCmp == 2

RatSign(x, y) == Sign(x.n * y.d - y.n * x.d)

priceSortFn(a, b) == Sign(a.price_per_hour_usd - b.price_per_hour_usd)

RatioDiff(bNum, bPrice, aNum, aPrice) ==
  IF bPrice = 0 /\ aPrice = 0 THEN NaNCmp
  ELSE IF bPrice = 0 THEN 1
  ELSE IF aPrice = 0 THEN -1
  ELSE Sign(bNum * aPrice - aNum * bPrice)

cpuSortFn(a, b) ==
  RatioDiff(b.virtual_cpu_count, b.price_per_hour_usd, a.virtual_cpu_count, a.price_per_hour_usd)

memorySortFn(a, b) ==
  RatioDiff(b.memory_gb, b.price_per_hour_usd, a.memory_gb, a.price_per_hour_usd)

sortFn(label, a, b) ==
  CASE label = "Lowest Cost" -> priceSortFn(a, b)
    [] label = "Best CPU Value" -> cpuSortFn(a, b)
    [] label = "Best Memory Value" -> memorySortFn(a, b)

WithNameTieBreak(result, a, b) ==
  IF result # 0 THEN result ELSE localeCompare(a.vm_name, b.vm_name)

regionCompare(a, b) ==
  IF a.avgPrice - b.avgPrice # 0 THEN Sign(a.avgPrice - b.avgPrice)
  ELSE localeCompare(a.region, b.region)

(* components/dashboard/comparison-table.tsx, the comparator of sortedVMData: *)
(* strings are lowered and compared with < and >, which keeps the order of *)
(* the model's strings within a column.                                    *)
tableCompare(sortField, sortDirection, a, b) ==
  LET less == IF sortField \in {"price_per_hour_usd", "virtual_cpu_count", "memory_gb"}
              THEN Sign(a[sortField] - b[sortField])
              ELSE Sign(Rank(a[sortField]) - Rank(b[sortField]))
  IN IF sortDirection = "asc" THEN less ELSE 0 - less

(* ORDER BY column direction of the list endpoints.  A null sorts as the  *)
(* greatest value: last ascending, first descending.                     *)
orderByCompare(column, direction, a, b) ==
  LET x == a[column]
      y == b[column]
      less == IF column = "vm_name" THEN Sign(Rank(x) - Rank(y))
              ELSE IF x = NULL /\ y = NULL THEN 0
              ELSE IF x = NULL THEN 1
              ELSE IF y = NULL THEN -1
              ELSE Sign(x - y)
  IN IF direction = "asc" THEN less ELSE 0 - less

(* The comparators that stand for ORDER BY column direction and for the   *)
(* comparison table's sortField and sortDirection.                        *)
OrderByClauses ==
  {"orderBy price_per_hour_usd asc", "orderBy price_per_hour_usd desc",
   "orderBy vm_name asc", "orderBy vm_name desc",
   "orderBy capacity_price asc", "orderBy capacity_price desc",
   "orderBy read_price asc", "orderBy read_price desc"}

TableClauses ==
  {"asc price_per_hour_usd", "desc price_per_hour_usd", "asc vm_name", "desc vm_name"}

ColumnOf(cmp) ==
  CASE cmp \in {"orderBy price_per_hour_usd asc", "orderBy price_per_hour_usd desc",
                "asc price_per_hour_usd", "desc price_per_hour_usd"} -> "price_per_hour_usd"
    [] cmp \in {"orderBy vm_name asc", "orderBy vm_name desc",
                "asc vm_name", "desc vm_name"} -> "vm_name"
    [] cmp \in {"orderBy capacity_price asc", "orderBy capacity_price desc"} -> "capacity_price"
    [] cmp \in {"orderBy read_price asc", "orderBy read_price desc"} -> "read_price"

DirectionOf(cmp) ==
  IF cmp \in {"orderBy price_per_hour_usd asc", "orderBy vm_name asc",
              "orderBy capacity_price asc", "orderBy read_price asc",
              "asc price_per_hour_usd", "asc vm_name"}
  THEN "asc" ELSE "desc"

Compare(cmp, a, b) ==
  CASE cmp = "orderBy price_per_hour_usd" -> Sign(a.price_per_hour_usd - b.price_per_hour_usd)
    [] cmp \in OrderByClauses -> orderByCompare(ColumnOf(cmp), DirectionOf(cmp), a, b)
    [] cmp \in TableClauses -> tableCompare(ColumnOf(cmp), DirectionOf(cmp), a, b)
    [] cmp = "orderBy capacity_price" -> Sign(a.capacity_price - b.capacity_price)
    [] cmp = "count desc" -> Sign(b.count - a.count)
    [] cmp = "provider" -> localeCompare(a.provider, b.provider)
    [] cmp = "avg_vm_price" -> RatSign(a.avg_vm_price, b.avg_vm_price)
    [] cmp = "default" -> localeCompare(a, b)
    [] cmp = "region" -> regionCompare(a, b)
    [] OTHER -> WithNameTieBreak(sortFn(cmp, a, b), a, b)

(***************************************************************************)
(* Array.prototype.sort and ORDER BY: stable, a comparator result of NaN   *)
(* counts as 0.                                                            *)
(***************************************************************************)
SortCompare(c) == IF c = NaNCmp THEN 0 ELSE c

InsertStable(t, x, cmp) ==
  LET pos == Cardinality({j \in DOMAIN t : SortCompare(Compare(cmp, t[j], x)) <= 0})
  IN SubSeq(t, 1, pos) \o <<x>> \o SubSeq(t, pos + 1, Len(t))

(* The elements s[lo..hi] inserted one after the other, left to right, into *)
(* t; the range is halved, and the left half is computed before the right  *)
(* one starts, so that the evaluation stays shallow.                       *)
RECURSIVE InsertRange(_, _, _, _, _)
InsertRange(t, s, lo, hi, cmp) ==
  IF lo > hi THEN t
  ELSE IF lo = hi THEN InsertStable(t, s[lo], cmp)
  ELSE LET mid == (lo + hi) \div 2
           left == InsertRange(t, s, lo, mid, cmp)
       IN IF Len(left) >= 0 THEN InsertRange(left, s, mid + 1, hi, cmp) ELSE left

StableSort(s, cmp) == InsertRange(<<>>, s, 1, Len(s), cmp)

(***************************************************************************)
(* services/dashboard: the findMany queries.  An empty provider or region  *)
(* set stands for an absent or empty list (no restriction).  Rows with     *)
(* equal sort keys come back in the order of the scan.                     *)
(***************************************************************************)
Matches(r, providers, regions) ==
  /\ (providers # {} => r.provider_name \in providers)
  /\ (regions # {} => r.region \in regions)

(* getVMComparison with findMany left without its orderBy *)
getVMComparisonUnordered(store, providers, regions, limit) ==
  LET vms == Take(SelectSeq(store, LAMBDA r : Matches(r, providers, regions)), limit)
  IN [i \in DOMAIN vms |->
        [provider |-> vms[i].provider_name,
         vm_name |-> vms[i].vm_name,
         virtual_cpu_count |-> vms[i].virtual_cpu_count,
         memory_gb |-> vms[i].memory_gb,
         price_per_hour_usd |-> vms[i].price_per_hour_usd,
         region |-> vms[i].region,
         os_type |-> vms[i].os_type]]

getVMComparison(store, providers, regions, limit) ==
  LET matching == SelectSeq(store, LAMBDA r : Matches(r, providers, regions))
      vms == Take(StableSort(matching, "orderBy price_per_hour_usd"), limit)
  IN [i \in DOMAIN vms |->
        [provider |-> vms[i].provider_name,
         vm_name |-> vms[i].vm_name,
         virtual_cpu_count |-> vms[i].virtual_cpu_count,
         memory_gb |-> vms[i].memory_gb,
         price_per_hour_usd |-> vms[i].price_per_hour_usd,
         region |-> vms[i].region,
         os_type |-> vms[i].os_type]]

storageComparisonQuery(store, providers, regions, limit) ==
  LET matching == SelectSeq(store, LAMBDA r : r.capacity_price # NULL
                                               /\ Matches(r, providers, regions))
  IN Take(StableSort(matching, "orderBy capacity_price"), limit)

OrString(x, default) == IF x = NullStr \/ x = "" THEN default ELSE x

getStorageComparison(store, providers, regions, limit) ==
  LET storage == storageComparisonQuery(store, providers, regions, limit)
  IN [i \in DOMAIN storage |->
        [provider |-> storage[i].provider_name,
         service_name |-> storage[i].service_name,
         storage_class |-> OrString(storage[i].storage_class, "STANDARD"),
         access_tier |-> OrString(storage[i].access_tier, "FREQUENT_ACCESS"),
         capacity_price |-> OrZero(storage[i].capacity_price),
         region |-> storage[i].region]]

getPriceDistribution(store, provider) ==
  LET matching == SelectSeq(store, LAMBDA r : r.provider_name = provider)
      vmPrices == StableSort(matching, "orderBy price_per_hour_usd")
  IN [i \in DOMAIN vmPrices |->
        [provider_name |-> vmPrices[i].provider_name,
         price_per_hour_usd |-> vmPrices[i].price_per_hour_usd,
         virtual_cpu_count |-> vmPrices[i].virtual_cpu_count,
         memory_gb |-> vmPrices[i].memory_gb]]

(***************************************************************************)
(* JavaScript numbers that may be non-finite: Math.min() of no arguments   *)
(* is Infinity, Math.max() is -Infinity, 0 / 0 is NaN, x / 0 is Infinity.  *)
(***************************************************************************)
Finite(r) == [kind |-> "finite", val |-> r]

NaN == [kind |-> "NaN", val |-> ZeroRat]

PosInfinity == [kind |-> "Infinity", val |-> ZeroRat]

NegInfinity == [kind |-> "-Infinity", val |-> ZeroRat]

MathMin(values) ==
  IF Len(values) = 0 THEN PosInfinity ELSE Finite(RatOfInt(MinSet(SeqToSet(values))))

MathMax(values) ==
  IF Len(values) = 0 THEN NegInfinity ELSE Finite(RatOfInt(MaxSet(SeqToSet(values))))

(* values[lo..hi] added one after the other, left to right, to acc *)
RECURSIVE FloatAddRange(_, _, _, _)
FloatAddRange(acc, values, lo, hi) ==
  IF lo > hi THEN acc
  ELSE IF lo = hi THEN FloatAdd(acc, values[lo])
  ELSE LET mid == (lo + hi) \div 2
           left == FloatAddRange(acc, values, lo, mid)
       IN IF left >= 0 THEN FloatAddRange(left, values, mid + 1, hi) ELSE left

FloatSum(values) == FloatAddRange(0, values, 1, Len(values))

Divide(x, n) ==
  IF n = 0 THEN (IF x = 0 THEN NaN ELSE PosInfinity) ELSE Finite(Rat(x, n))

(***************************************************************************)
(* app/(features)/providers/[provider]/page.tsx: the statistics entry the  *)
(* provider page builds for its provider.                                  *)
(***************************************************************************)
VMLimit == 100

StorageLimit == 50

ToUpperCase(s) ==
  CASE s = "aws" -> "AWS"
    [] s = "azure" -> "AZURE"
    [] s = "gcp" -> "GCP"
    [] OTHER -> s

ProviderContent(vms, storage, provider) ==
  LET vmData == getVMComparison(vms, {provider}, {}, VMLimit)
      storageData == getStorageComparison(storage, {provider}, {}, StorageLimit)
      priceDistribution == getPriceDistribution(vms, provider)
      prices == [i \in DOMAIN priceDistribution |-> priceDistribution[i].price_per_hour_usd]
      avgPrice == Divide(FloatSum(prices), Len(priceDistribution))
      minPrice == MathMin(prices)
      maxPrice == MathMax(prices)
  IN [vmData |-> vmData,
      storageData |-> storageData,
      providerStats |->
        << [provider |-> provider,
            vm_count |-> Len(priceDistribution),
            storage_services |-> Len(storageData),
            avg_vm_price |-> avgPrice,
            min_vm_price |-> minPrice,
            max_vm_price |-> maxPrice,
            avg_storage_price |-> Finite(ZeroRat),
            regions |-> Distinct([i \in DOMAIN vmData |-> vmData[i].region])] >>]


(***************************************************************************)
(* components/dashboard/regional-cost-comparison.tsx.                      *)
(* The reduce visits vmData in order: avgPrice accumulates the prices of a *)
(* region with floating-point additions, minPrice starts from              *)
(* Number.MAX_SAFE_INTEGER (2^53 - 1 in the source, the largest integer of *)
(* the model checker here; above every price either way) and maxPrice from *)
(* 0.  Number(x.toFixed(6)) rounds half up to the price unit *)
(* and reads the result back as a number.                                  *)
(***************************************************************************)
MAX_SAFE_INTEGER == 2147483647

MinWith(acc, x) == IF x < acc THEN x ELSE acc

MaxWith(acc, x) == IF x > acc THEN x ELSE acc

ToFixed6(sum, count) == FloatRound((2 * sum + count) \div (2 * count))

regionStats(vmData) ==
  LET keys == Distinct([i \in DOMAIN vmData |-> vmData[i].region])
      Reduce[i \in 0..Len(vmData)] ==
        IF i = 0 THEN [k \in {} |-> 0]
        ELSE LET vm == vmData[i]
                 acc == Reduce[i - 1]
                 old == IF vm.region \in DOMAIN acc THEN acc[vm.region]
                        ELSE [region |-> vm.region, vmCount |-> 0, avgPrice |-> 0,
                              minPrice |-> MAX_SAFE_INTEGER, maxPrice |-> 0, providers |-> {}]
                 new == [region |-> old.region,
                         vmCount |-> old.vmCount + 1,
                         avgPrice |-> FloatAdd(old.avgPrice, vm.price_per_hour_usd),
                         minPrice |-> MinWith(old.minPrice, vm.price_per_hour_usd),
                         maxPrice |-> MaxWith(old.maxPrice, vm.price_per_hour_usd),
                         providers |-> old.providers \cup {vm.provider}]
             IN [k \in DOMAIN acc \cup {vm.region} |-> IF k = vm.region THEN new ELSE acc[k]]
  IN [keys |-> keys, stats |-> Reduce[Len(vmData)]]

RegionalCostComparison(vmData) ==
  IF Len(vmData) = 0 THEN [branch |-> "no-data", regions |-> <<>>]
  ELSE
    LET grouped == regionStats(vmData)
        sortedKeys == StableSort(grouped.keys, "default")
        mapped == [i \in DOMAIN sortedKeys |->
                     LET region == grouped.stats[sortedKeys[i]]
                     IN [region |-> region.region,
                         vmCount |-> region.vmCount,
                         avgPrice |-> ToFixed6(region.avgPrice, region.vmCount),
                         minPrice |-> region.minPrice,
                         maxPrice |-> region.maxPrice,
                         providers |-> region.providers,
                         providerCount |-> Cardinality(region.providers)]]
        regions == StableSort(mapped, "region")
    IN [branch |-> "data",
        regions |-> regions,
        globalMinPrice |-> MinSet({regions[i].minPrice : i \in DOMAIN regions}),
        globalMaxPrice |-> MaxSet({regions[i].maxPrice : i \in DOMAIN regions})]

(***************************************************************************)
(* components/dashboard/best-value-matrix.tsx.                             *)
(* findBestValue sorts a copy of vmData and takes its first element.       *)
(***************************************************************************)
findBestValue(vmData, label) ==
  LET sorted == StableSort(vmData, label)
  IN IF Len(sorted) = 0 THEN <<>>
     ELSE << [label |-> label, vm |-> sorted[1]] >>

BestValueMatrixNoGuard(vmData) ==
  [branch |-> "data",
   categories |-> findBestValue(vmData, "Lowest Cost")
                  \o findBestValue(vmData, "Best CPU Value")
                  \o findBestValue(vmData, "Best Memory Value")]

BestValueMatrix(vmData) ==
  IF Len(vmData) = 0 THEN [branch |-> "no-data", categories |-> <<>>]
  ELSE [branch |-> "data",
        categories |-> findBestValue(vmData, "Lowest Cost")
                       \o findBestValue(vmData, "Best CPU Value")
                       \o findBestValue(vmData, "Best Memory Value")]

(***************************************************************************)
(* The three cards that name a best provider from a ProviderStats list.    *)
(***************************************************************************)
RatMin(S) == CHOOSE x \in S : \A y \in S : ~RatLess(y, x)

RatMax(S) == CHOOSE x \in S : \A y \in S : ~RatLess(x, y)

RatSub(x, y) == Rat(x.n * y.d - y.n * x.d, x.d * y.d)

ToFixed6Rat(x) == FloatRound((2 * x.n + x.d) \div (2 * x.d))

First(hits) == IF Len(hits) = 0 THEN <<>> ELSE <<hits[1].provider>>

cheapest(sortedProviders) ==
  LET F[i \in 1..Len(sortedProviders)] ==
        IF i = 1 THEN sortedProviders[1]
        ELSE IF RatLess(sortedProviders[i].avg_vm_price, F[i - 1].avg_vm_price)
             THEN sortedProviders[i] ELSE F[i - 1]
  IN F[Len(sortedProviders)]

mostExpensive(sortedProviders) ==
  LET F[i \in 1..Len(sortedProviders)] ==
        IF i = 1 THEN sortedProviders[1]
        ELSE IF RatLess(F[i - 1].avg_vm_price, sortedProviders[i].avg_vm_price)
             THEN sortedProviders[i] ELSE F[i - 1]
  IN F[Len(sortedProviders)]

TotalVMs(providerStats) == SumSeq([i \in DOMAIN providerStats |-> providerStats[i].vm_count])

(* components/dashboard/comparison-overview.tsx *)
ComparisonOverview(providerStats) ==
  IF Len(providerStats) = 0 THEN [branch |-> "no-data"]
  ELSE
    LET sortedProviderStats ==
          StableSort(providerStats, "provider")
        idx == DOMAIN sortedProviderStats
        bestPrice == MinSet({sortedProviderStats[i].min_vm_price : i \in idx})
        worstPrice == MaxSet({sortedProviderStats[i].max_vm_price : i \in idx})
        bestProvider ==
          First(SelectSeq(sortedProviderStats, LAMBDA p : p.min_vm_price = bestPrice))
        avgPrices == {sortedProviderStats[i].avg_vm_price : i \in idx}
        maxAvgPrice == RatMax(avgPrices)
        minAvgPrice == RatMin(avgPrices)
    IN [branch |-> "data",
        order |-> [i \in idx |-> sortedProviderStats[i].provider],
        bestPrice |-> bestPrice,
        worstPrice |-> worstPrice,
        bestProvider |-> bestProvider,
        isLowest |-> {sortedProviderStats[i].provider : i \in
                        {j \in idx : sortedProviderStats[j].min_vm_price = bestPrice}},
        potentialSavings |-> ToFixed6Rat(RatSub(maxAvgPrice, minAvgPrice)),
        totalVMs |-> TotalVMs(sortedProviderStats),
        totalServices |->
          SumSeq([i \in idx |-> sortedProviderStats[i].storage_services])]

(* components/dashboard/main-cost-comparison-card.tsx *)
MainCostComparisonCard(providerStats) ==
  IF Len(providerStats) = 0 THEN [branch |-> "no-data"]
  ELSE
    LET idx == DOMAIN providerStats
        avgPrices == {providerStats[i].avg_vm_price : i \in idx}
        minAvgPrice == RatMin(avgPrices)
        bestProvider ==
          First(SelectSeq(providerStats, LAMBDA p : p.avg_vm_price = minAvgPrice))
        sortedProviders ==
          StableSort(providerStats, "avg_vm_price")
    IN [branch |-> "data",
        lowestPrice |-> MinSet({providerStats[i].min_vm_price : i \in idx}),
        highestPrice |-> MaxSet({providerStats[i].max_vm_price : i \in idx}),
        potentialSavings |-> RatSub(RatMax(avgPrices), minAvgPrice),
        bestProvider |-> bestProvider,
        order |-> [i \in DOMAIN sortedProviders |-> sortedProviders[i].provider],
        totalVMs |-> TotalVMs(providerStats)]

(* the overview card with isHighest computed without "&& !isLowest" *)
MainCostComparisonCardOverviewBothBadges(providerStats) ==
  IF Len(providerStats) = 0 THEN [branch |-> "no-data"]
  ELSE
    LET sortedProviders ==
          StableSort(providerStats, "provider")
        idx == DOMAIN sortedProviders
        cheapestProvider == cheapest(sortedProviders)
        mostExpensiveProvider == mostExpensive(sortedProviders)
        avgPrices == {sortedProviders[i].avg_vm_price : i \in idx}
        isLowest == {sortedProviders[i].provider : i \in
                       {j \in idx : sortedProviders[j].provider = cheapestProvider.provider
                                    /\ Len(sortedProviders) > 1}}
    IN [branch |-> "data",
        order |-> [i \in idx |-> sortedProviders[i].provider],
        totalVMs |-> TotalVMs(sortedProviders),
        cheapestProvider |-> cheapestProvider.provider,
        mostExpensiveProvider |-> mostExpensiveProvider.provider,
        potentialSavings |-> RatSub(RatMax(avgPrices), RatMin(avgPrices)),
        isLowest |-> isLowest,
        isHighest |-> {sortedProviders[i].provider : i \in
                         {j \in idx : sortedProviders[j].provider = mostExpensiveProvider.provider
                                      /\ Len(sortedProviders) > 1}}]

(* components/dashboard/provider-stats-card.tsx, the overview card *)
MainCostComparisonCardOverview(providerStats) ==
  IF Len(providerStats) = 0 THEN [branch |-> "no-data"]
  ELSE
    LET sortedProviders ==
          StableSort(providerStats, "provider")
        idx == DOMAIN sortedProviders
        cheapestProvider == cheapest(sortedProviders)
        mostExpensiveProvider == mostExpensive(sortedProviders)
        avgPrices == {sortedProviders[i].avg_vm_price : i \in idx}
        isLowest == {sortedProviders[i].provider : i \in
                       {j \in idx : sortedProviders[j].provider = cheapestProvider.provider
                                    /\ Len(sortedProviders) > 1}}
    IN [branch |-> "data",
        order |-> [i \in idx |-> sortedProviders[i].provider],
        totalVMs |-> TotalVMs(sortedProviders),
        cheapestProvider |-> cheapestProvider.provider,
        mostExpensiveProvider |-> mostExpensiveProvider.provider,
        potentialSavings |-> RatSub(RatMax(avgPrices), RatMin(avgPrices)),
        isLowest |-> isLowest,
        isHighest |-> {sortedProviders[i].provider : i \in
                         {j \in idx : sortedProviders[j].provider = mostExpensiveProvider.provider
                                      /\ sortedProviders[j].provider \notin isLowest
                                      /\ Len(sortedProviders) > 1}}]

(***************************************************************************)
(* app/api/storage/stats/route.ts.  A filter that is not supplied is       *)
(* NullStr (strings) or NULL (prices).  The aggregate's where clause is    *)
(* { ...where, capacity_price: { not: null } }: the spread replaces the    *)
(* capacity_price bounds of where.                                         *)
(***************************************************************************)
MatchesStrings(r, f) ==
  /\ (f.provider # NullStr => r.provider_name = f.provider)
  /\ (f.region # NullStr => r.region = f.region)
  /\ (f.storageClass # NullStr => r.storage_class = f.storageClass)
  /\ (f.accessTier # NullStr => r.access_tier = f.accessTier)

MatchesWhere(r, f) ==
  /\ MatchesStrings(r, f)
  /\ (f.minPrice # NULL => r.capacity_price # NULL /\ r.capacity_price >= f.minPrice)
  /\ (f.maxPrice # NULL => r.capacity_price # NULL /\ r.capacity_price <= f.maxPrice)

NonNull(values) == SelectSeq(values, LAMBDA v : v # NULL)

PriceStats(values) ==
  [avg |-> OrZeroRat(AvgOf(values)), min |-> OrZero(MinOf(values)), max |-> OrZero(MaxOf(values))]

storageStatsGET(store, f) ==
  LET counted == SelectSeq(store, LAMBDA r : MatchesWhere(r, f))
      rows == SelectSeq(store, LAMBDA r : MatchesStrings(r, f))
  IN [op |-> "storage-stats", status |-> 200, filters |-> f,
      totalCount |-> Len(counted),
      capacityPriceStats |-> PriceStats(NonNull([i \in DOMAIN rows |-> rows[i].capacity_price])),
      readPriceStats |-> PriceStats(NonNull([i \in DOMAIN counted |-> counted[i].read_price])),
      writePriceStats |-> PriceStats(NonNull([i \in DOMAIN counted |-> counted[i].write_price]))]

(***************************************************************************)
(* The operations.  Each leaves the tables alone and records its answer.   *)
(* The database is taken to answer every query.                            *)
(***************************************************************************)
DashboardLimitVM == 50

DashboardLimitStorage == 30

(* app/api/dashboard/provider-stats/route.ts *)
ProviderStatsGET ==
  /\ response' = [op |-> "provider-stats", status |-> 200,
                  data |-> getProviderStats(vmStore, storageStore)]
  /\ UNCHANGED <<vmStore, storageStore, client>>

(* app/api/dashboard/vm-comparison/route.ts *)
VMComparisonGET(providers, regions, limit) ==
  /\ response' = [op |-> "vm-comparison", status |-> 200,
                  providers |-> providers, regions |-> regions, limit |-> limit,
                  data |-> getVMComparison(vmStore, providers, regions, limit)]
  /\ UNCHANGED <<vmStore, storageStore, client>>

(* app/api/dashboard/storage-comparison/route.ts *)
StorageComparisonGET(providers, regions, limit) ==
  /\ response' = [op |-> "storage-comparison", status |-> 200,
                  providers |-> providers, regions |-> regions, limit |-> limit,
                  data |-> getStorageComparison(storageStore, providers, regions, limit)]
  /\ UNCHANGED <<vmStore, storageStore, client>>

(* app/api/storage/stats/route.ts *)
StorageStatsGET(f) ==
  /\ response' = storageStatsGET(storageStore, f)
  /\ UNCHANGED <<vmStore, storageStore, client>>

(* app/page.tsx, DashboardContent *)
DashboardPage ==
  /\ LET providerStats == getProviderStats(vmStore, storageStore)
         vmData == getVMComparison(vmStore, {}, {}, DashboardLimitVM)
         storageData == getStorageComparison(storageStore, {}, {}, DashboardLimitStorage)
     IN response' = [op |-> "dashboard",
                     providerStats |-> providerStats,
                     vmData |-> vmData,
                     storageData |-> storageData,
                     totalVMs |-> TotalVMs(providerStats),
                     mainCard |-> MainCostComparisonCard(providerStats),
                     overview |-> ComparisonOverview(providerStats),
                     regional |-> RegionalCostComparison(vmData),
                     bestValue |-> BestValueMatrix(vmData)]
  /\ UNCHANGED <<vmStore, storageStore, client>>

(* components/dashboard/provider-stats-card.tsx, rendered with fetched statistics *)
OverviewCard ==
  /\ response.op \in {"provider-stats", "dashboard"}
  /\ LET providerStats == IF response.op = "provider-stats" THEN response.data
                          ELSE response.providerStats
     IN response' = [op |-> "overview-card", providerStats |-> providerStats,
                     card |-> MainCostComparisonCardOverview(providerStats)]
  /\ UNCHANGED <<vmStore, storageStore, client>>

(* app/(features)/providers/[provider]/page.tsx, ProviderPage *)
ProviderPage(param) ==
  /\ LET provider == ToUpperCase(param)
     IN response' =
          IF provider \notin {"AWS", "AZURE", "GCP"}
          THEN [op |-> "provider-page", status |-> "notFound", provider |-> provider]
          ELSE [op |-> "provider-page", status |-> "ok", provider |-> provider,
                content |-> ProviderContent(vmStore, storageStore, provider)]
  /\ UNCHANGED <<vmStore, storageStore, client>>

(***************************************************************************)
(* Specifications.  Init draws a snapshot of the tables; the operations    *)
(* read it.  Spec is the statistics endpoint over the compute table, SpecDashboard   *)
(* the dashboard page, SpecProvider the provider page and the VM           *)
(* comparison endpoint, SpecStorage the storage table.                     *)
(***************************************************************************)
MaxLimit == 2

ProviderParams == {"aws", "azure", "gcp", "ibm"}

ProviderChoices == {{}, {"AWS"}}

Limits == {MaxLimit - 1, DashboardLimitVM}

NoFilters ==
  [provider |-> NullStr, region |-> NullStr, storageClass |-> NullStr,
   accessTier |-> NullStr, minPrice |-> NULL, maxPrice |-> NULL]

StorageFilters ==
  { [NoFilters EXCEPT !.provider = pr, !.minPrice = lo, !.maxPrice = hi] :
    pr \in {NullStr, "AWS"}, lo \in {NULL, 1}, hi \in {NULL, MaxLimit} }

NoResponse == [op |-> "none"]

(* No browser session: the server-rendered pages and the endpoints alone. *)
NoClient == [session |-> "none"]

Init ==
  /\ vmStore \in SeqsUpTo(OnDemandVMPricing, MaxVMs)
  /\ storageStore = <<>>
  /\ response = NoResponse
  /\ client = NoClient

Next ==
  \/ ProviderStatsGET
  \/ OverviewCard

Spec == Init /\ [][Next]_vars

NextDashboard ==
  \/ DashboardPage
  \/ OverviewCard

SpecDashboard == Init /\ [][NextDashboard]_vars

NextProvider ==
  \/ \E providers \in ProviderChoices, limit \in Limits : VMComparisonGET(providers, {}, limit)
  \/ \E param \in ProviderParams : ProviderPage(param)

SpecProvider == Init /\ [][NextProvider]_vars

VMSeeds ==
  {s \in SeqsUpTo(OnDemandVMPricing, 1) :
     \A i \in DOMAIN s : s[i].price_per_hour_usd = 1 /\ s[i].provider_name # "GCP"
                           /\ s[i].region = "europe"}

InitStorage ==
  /\ vmStore \in VMSeeds
  /\ storageStore \in SeqsUpTo(StoragePricing, MaxStorage)
  /\ response = NoResponse
  /\ client = NoClient

NextStorage ==
  \/ ProviderStatsGET
  \/ \E providers \in ProviderChoices : 
       StorageComparisonGET(providers, {}, DashboardLimitStorage)
  \/ \E f \in StorageFilters : StorageStatsGET(f)

SpecStorage == InitStorage /\ [][NextStorage]_vars

(***************************************************************************)
(* Properties.                                                             *)
(***************************************************************************)
OffersOf(provider) == {k \in DOMAIN vmStore : vmStore[k].provider_name = provider}

RECURSIVE PriceTotal(_)
PriceTotal(S) ==
  IF S = {} THEN 0
  ELSE LET k == CHOOSE x \in S : TRUE
       IN vmStore[k].price_per_hour_usd + PriceTotal(S \ {k})

EntriesOf(data, provider) == {i \in DOMAIN data : data[i].provider = provider}

(* C1: in the answer of the provider statistics, the entry of every        *)
(* provider that has offers carries the number of its offers, the smallest *)
(* and the largest of their hourly prices, and their arithmetic mean.      *)
C1_StatsAreCountMinMaxMean ==
  response.op = "provider-stats" =>
    \A p \in Providers :
      OffersOf(p) # {} =>
        /\ EntriesOf(response.data, p) # {}
        /\ \A i \in EntriesOf(response.data, p) :
             LET e == response.data[i]
             IN /\ e.vm_count = Cardinality(OffersOf(p))
                /\ e.min_vm_price \in {vmStore[k].price_per_hour_usd : k \in OffersOf(p)}
                /\ e.max_vm_price \in {vmStore[k].price_per_hour_usd : k \in OffersOf(p)}
                /\ \A k \in OffersOf(p) :
                     /\ e.min_vm_price <= vmStore[k].price_per_hour_usd
                     /\ vmStore[k].price_per_hour_usd <= e.max_vm_price
                /\ e.avg_vm_price.d > 0
                /\ e.avg_vm_price.n * Cardinality(OffersOf(p)) = e.avg_vm_price.d * PriceTotal(OffersOf(p))

(* The example of the specification in price units: AWS 1 and 3, AZURE 2.  *)
C1_Witness ==
  /\ response.op = "provider-stats"
  /\ Len(vmStore) = 3
  /\ {vmStore[k].price_per_hour_usd : k \in OffersOf("AWS")} = {1, 3}
  /\ {vmStore[k].price_per_hour_usd : k \in OffersOf("AZURE")} = {2}
  /\ \E i, j \in DOMAIN response.data :
       /\ response.data[i].provider = "AWS"
       /\ response.data[i].vm_count = 2
       /\ response.data[i].min_vm_price = 1
       /\ response.data[i].max_vm_price = 3
       /\ response.data[i].avg_vm_price = RatOfInt(2)
       /\ response.data[j].provider = "AZURE"
       /\ response.data[j].vm_count = 1
       /\ response.data[j].min_vm_price = 2
       /\ response.data[j].max_vm_price = 2
       /\ response.data[j].avg_vm_price = RatOfInt(2)

(* C2: the provider statistics hold exactly one entry for each provider    *)
(* that has at least one compute offer, and no entry for another provider. *)
C2_OneEntryPerProvider ==
  response.op = "provider-stats" =>
    /\ {response.data[i].provider : i \in DOMAIN response.data}
         = {p \in Providers : OffersOf(p) # {}}
    /\ \A i, j \in DOMAIN response.data :
         response.data[i].provider = response.data[j].provider => i = j

C2_Witness ==
  /\ response.op = "provider-stats"
  /\ Len(response.data) = 2
  /\ \E p \in Providers : Cardinality(OffersOf(p)) = 2
  /\ \E p \in Providers : OffersOf(p) = {}
  /\ \E p \in Providers : \E k1, k2 \in OffersOf(p) : vmStore[k1].region # vmStore[k2].region

(* C4: with no offers the statistics are the empty list, and every         *)
(* component given an empty list takes its no-data branch.                 *)
C4_EmptyInputNoData ==
  /\ response.op = "dashboard" =>
       /\ (Len(vmStore) = 0 => response.providerStats = <<>> /\ response.vmData = <<>>)
       /\ (response.providerStats = <<>> =>
             response.mainCard.branch = "no-data" /\ response.overview.branch = "no-data")
       /\ (response.vmData = <<>> =>
             response.regional.branch = "no-data" /\ response.bestValue.branch = "no-data")
  /\ response.op = "overview-card" =>
       (response.providerStats = <<>> => response.card.branch = "no-data")

C4_Witness ==
  /\ response.op = "dashboard"
  /\ Len(vmStore) = 0
  /\ response.providerStats = <<>>
  /\ response.mainCard.branch = "no-data"
  /\ response.overview.branch = "no-data"
  /\ response.regional.branch = "no-data"
  /\ response.bestValue.branch = "no-data"

(* C3: the statistics per provider and the statistics per region are the  *)
(* same for every ordering of the same offers.                             *)
StatsValues(data) ==
  {[provider |-> data[i].provider, vm_count |-> data[i].vm_count,
    min_vm_price |-> data[i].min_vm_price, avg_vm_price |-> data[i].avg_vm_price,
    max_vm_price |-> data[i].max_vm_price] : i \in DOMAIN data}

RegionValues(view) ==
  {[region |-> view.regions[i].region, vmCount |-> view.regions[i].vmCount,
    minPrice |-> view.regions[i].minPrice, avgPrice |-> view.regions[i].avgPrice,
    maxPrice |-> view.regions[i].maxPrice] : i \in DOMAIN view.regions}

C5_NoEntryWithoutOffers ==
  (response.op = "provider-page" /\ response.status = "ok") =>
    (OffersOf(response.provider) = {} => response.content.providerStats = <<>>)

(* C6: the average capacity price of a provider, and of the storage        *)
(* statistics, is the mean of the non-null capacity prices alone: a null   *)
(* adds nothing to the sum and nothing to the divisor.                     *)
PricedStorage(S) == {k \in S : storageStore[k].capacity_price # NULL}

RECURSIVE CapacityTotal(_)
CapacityTotal(S) ==
  IF S = {} THEN 0
  ELSE LET k == CHOOSE x \in S : TRUE
       IN storageStore[k].capacity_price + CapacityTotal(S \ {k})

IsMeanOf(avg, S) ==
  /\ avg.d > 0
  /\ avg.n * Cardinality(S) = avg.d * CapacityTotal(S)

StorageOf(provider) == {k \in DOMAIN storageStore : storageStore[k].provider_name = provider}

Selected(f) == {k \in DOMAIN storageStore : MatchesWhere(storageStore[k], f)}

C6_AverageIgnoresNull ==
  /\ response.op = "provider-stats" =>
       \A i \in DOMAIN response.data :
         LET priced == PricedStorage(StorageOf(response.data[i].provider))
         IN priced # {} => IsMeanOf(response.data[i].avg_storage_price, priced)
  /\ (response.op = "storage-stats" /\ response.filters.minPrice = NULL
                                    /\ response.filters.maxPrice = NULL) =>
       LET priced == PricedStorage(Selected(response.filters))
       IN priced # {} => IsMeanOf(response.capacityPriceStats.avg, priced)

C6_Witness ==
  /\ response.op = "provider-stats"
  /\ \E i \in DOMAIN response.data :
       LET mine == StorageOf(response.data[i].provider)
       IN /\ Cardinality(mine) = 2
          /\ Cardinality(PricedStorage(mine)) = 1
          /\ response.data[i].storage_services = 2
          /\ response.data[i].avg_storage_price = RatOfInt(2)

(* C7: without a non-null capacity price the average is undefined, or zero *)
(* together with a zero count; never zero next to a non-zero count.        *)
UndefinedOrZeroWithZeroCount(avg, count) ==
  avg = NullRat \/ (avg = ZeroRat /\ count = 0)

C7_NoAverageWithoutPrices ==
  /\ response.op = "provider-stats" =>
       \A i \in DOMAIN response.data :
         PricedStorage(StorageOf(response.data[i].provider)) = {} =>
           UndefinedOrZeroWithZeroCount(response.data[i].avg_storage_price,
                                        response.data[i].storage_services)
  /\ response.op = "storage-stats" =>
       (PricedStorage(Selected(response.filters)) = {} =>
          UndefinedOrZeroWithZeroCount(response.capacityPriceStats.avg, response.totalCount))

(* C8: the best-value winners are the same for every ordering of the same  *)
(* offers.                                                                 *)
C8_SameWinnerForEveryOrdering ==
  response.op = "dashboard" =>
    \A q \in Orderings(response.vmData) :
      BestValueMatrix(q).categories = response.bestValue.categories

(* C9: the three cards name the same single best provider.                 *)
C9_CardsAgree ==
  (response.op = "overview-card" /\ response.providerStats # <<>>) =>
    LET best == response.card.cheapestProvider
    IN /\ ComparisonOverview(response.providerStats).bestProvider = <<best>>
       /\ ComparisonOverview(response.providerStats).isLowest = {best}
       /\ MainCostComparisonCard(response.providerStats).bestProvider = <<best>>

(* C10: a storage row with an unrecognized or absent access tier is        *)
(* rejected, and no field of a returned record replaces the stored value.  *)
C10_NoSilentDefaults ==
  response.op = "storage-comparison" =>
    LET rows == storageComparisonQuery(storageStore, response.providers,
                                       response.regions, response.limit)
    IN /\ (\E i \in DOMAIN rows : rows[i].access_tier \notin AccessTiers) => response.status # 200
       /\ response.status = 200 =>
            \A i \in DOMAIN rows :
              /\ response.data[i].access_tier = rows[i].access_tier
              /\ response.data[i].storage_class = rows[i].storage_class
              /\ response.data[i].capacity_price = rows[i].capacity_price

(***************************************************************************)
(* The dashboard in the browser: app/page.tsx (client DashboardContent)    *)
(* reads the statistics through useProviderStats, a React Query observer   *)
(* of the key ['provider-stats'] with a staleTime of five minutes.  An     *)
(* observer that mounts returns the cached data when there is any and      *)
(* fetches only when there is none or when it is stale; Home passes        *)
(* refreshInterval = 0, so nothing refetches on a timer.  The fetch runs   *)
(* GET /api/dashboard/provider-stats, which is force-dynamic and computes  *)
(* getProviderStats on the tables as they are.  The tables belong to the   *)
(* data pipeline, which inserts rows.                                      *)
(***************************************************************************)
MaxCatalog == 2

(* A query without data: data is undefined in the source. *)
IdleQuery == [hasData |-> FALSE, data |-> <<>>, stale |-> FALSE, fetching |-> FALSE]

DashboardClient(query) == [session |-> "dashboard", providerStats |-> query]

(* hooks/useDashboard.ts, useProviderStats, evaluated when DashboardContent mounts *)
useProviderStats ==
  /\ client.session = "dashboard"
  /\ LET query == client.providerStats
         mustFetch == ~query.hasData \/ query.stale
     IN /\ client' = DashboardClient([query EXCEPT !.fetching = query.fetching \/ mustFetch])
        /\ response' = [op |-> "useProviderStats", isLoading |-> ~query.hasData,
                        data |-> query.data]
  /\ UNCHANGED <<vmStore, storageStore>>

(* fetchProviderStats resolves: the route handler answers and the observer re-renders *)
fetchProviderStats ==
  /\ client.session = "dashboard"
  /\ client.providerStats.fetching
  /\ LET data == getProviderStats(vmStore, storageStore)
     IN /\ client' = DashboardClient([hasData |-> TRUE, data |-> data, stale |-> FALSE,
                                        fetching |-> FALSE])
        /\ response' = [op |-> "useProviderStats", isLoading |-> FALSE, data |-> data]
  /\ UNCHANGED <<vmStore, storageStore>>

(* staleTime: 5 * 60 * 1000 has passed since the data arrived *)
StaleTimeElapses ==
  /\ client.session = "dashboard"
  /\ client.providerStats.hasData
  /\ ~client.providerStats.stale
  /\ client' = DashboardClient([client.providerStats EXCEPT !.stale = TRUE])
  /\ UNCHANGED <<vmStore, storageStore, response>>

(* The pipeline's database storage step inserts a row. *)
PipelineInsert(row) ==
  /\ Len(vmStore) < MaxCatalog
  /\ vmStore' = Append(vmStore, row)
  /\ response' = [op |-> "pipeline-insert"]
  /\ UNCHANGED <<storageStore, client>>

InitBrowser ==
  /\ vmStore \in SeqsUpTo(OnDemandVMPricing, MaxCatalog - 1)
  /\ storageStore = <<>>
  /\ response = NoResponse
  /\ client = DashboardClient(IdleQuery)

NextBrowser ==
  \/ useProviderStats
  \/ fetchProviderStats
  \/ StaleTimeElapses
  \/ \E row \in OnDemandVMPricing : PipelineInsert(row)

SpecBrowser == InitBrowser /\ [][NextBrowser]_vars

(* C11: the statistics a provider-stats query of the dashboard returns are *)
(* those of the tables as they are at the query, never an earlier result.  *)
C11_FreshOnEveryQuery ==
  (response.op = "useProviderStats" /\ ~response.isLoading) =>
    response.data = getProviderStats(vmStore, storageStore)

(***************************************************************************)
(* A provider with more offers than the provider page reads: the page      *)
(* takes the VMLimit cheapest offers of getVMComparison for vmData and     *)
(* every offer of getPriceDistribution for the prices.  The table holds a  *)
(* block of equal cheapest AWS offers followed by dearer ones.             *)
(***************************************************************************)
CheapestOffer ==
  [vm_name |-> "a1.small", provider_name |-> "AWS", virtual_cpu_count |-> 1, memory_gb |-> 4,
   price_per_hour_usd |-> 0, region |-> "asia", os_type |-> "LINUX"]

DearerOffers == {r \in OnDemandVMPricing : r.provider_name = "AWS" /\ r.price_per_hour_usd > 0}

Block(n) == [i \in 1..n |-> CheapestOffer]

InitCatalog ==
  /\ \E n \in (VMLimit - MaxCatalog)..VMLimit, rest \in SeqsUpTo(DearerOffers, MaxCatalog) :
       vmStore = Block(n) \o rest
  /\ storageStore = <<>>
  /\ response = NoResponse
  /\ client = NoClient

NextCatalog == \E param \in ProviderParams : ProviderPage(param)

SpecCatalog == InitCatalog /\ [][NextCatalog]_vars

(* C12: the regions of a provider's statistics are exactly the distinct    *)
(* regions in which the provider has an offer, each once, in the           *)
(* statistics endpoint and in the entry built on the provider page.        *)
RegionsOfOffers(provider) == {vmStore[k].region : k \in OffersOf(provider)}

ExactRegions(regions, provider) ==
  /\ SeqToSet(regions) = RegionsOfOffers(provider)
  /\ \A i, j \in DOMAIN regions : regions[i] = regions[j] => i = j

C12_RegionsAreDistinctRegionsOfOffers ==
  /\ response.op = "provider-stats" =>
       \A i \in DOMAIN response.data :
         ExactRegions(response.data[i].regions, response.data[i].provider)
  /\ (response.op = "provider-page" /\ response.status = "ok") =>
       \A i \in DOMAIN response.content.providerStats :
         ExactRegions(response.content.providerStats[i].regions, response.provider)

(***************************************************************************)
(* The components as programs over JavaScript arrays.  Arrays live in a    *)
(* heap, a function from the name of a binding to the array it refers to:  *)
(* [...a] allocates a new array with the elements of a, and sort rewrites  *)
(* the array it is called on.  Each operator gives the heap a component    *)
(* leaves behind when it is rendered with the array of its props.          *)
(***************************************************************************)
Props(name, array) == [r \in {name} |-> array]

Spread(heap, from, to) ==
  [r \in DOMAIN heap \cup {to} |-> IF r = to THEN heap[from] ELSE heap[r]]

SortInPlace(heap, ref, cmp) == [heap EXCEPT ![ref] = StableSort(heap[ref], cmp)]

(* best-value-matrix.tsx:40, vmData.sort(...) in place of [...vmData].sort(...) *)
findBestValueInPlace(vmData, label) ==
  Spread(SortInPlace(Props("vmData", vmData), "vmData", label), "vmData", "sorted")

(* best-value-matrix.tsx:40 *)
findBestValueArrays(vmData, label) ==
  SortInPlace(Spread(Props("vmData", vmData), "vmData", "sorted"), "sorted", label)

(* comparison-table.tsx:36 *)
sortedVMDataArrays(vmData, sortField, sortDirection) ==
  IF sortDirection = "asc"
  THEN IF sortField = "vm_name"
       THEN SortInPlace(Spread(Props("vmData", vmData), "vmData", "sortedVMData"),
                        "sortedVMData", "asc vm_name")
       ELSE SortInPlace(Spread(Props("vmData", vmData), "vmData", "sortedVMData"),
                        "sortedVMData", "asc price_per_hour_usd")
  ELSE IF sortField = "vm_name"
       THEN SortInPlace(Spread(Props("vmData", vmData), "vmData", "sortedVMData"),
                        "sortedVMData", "desc vm_name")
       ELSE SortInPlace(Spread(Props("vmData", vmData), "vmData", "sortedVMData"),
                        "sortedVMData", "desc price_per_hour_usd")

(* comparison-overview.tsx:26 *)
ComparisonOverviewArrays(providerStats) ==
  SortInPlace(Spread(Props("providerStats", providerStats), "providerStats",
                     "sortedProviderStats"),
              "sortedProviderStats", "provider")

(* main-cost-comparison-card.tsx:41 *)
MainCostComparisonCardArrays(providerStats) ==
  SortInPlace(Spread(Props("providerStats", providerStats), "providerStats", "sortedProviders"),
              "sortedProviders", "avg_vm_price")

(* provider-stats-card.tsx:103 *)
MainCostComparisonCardOverviewArrays(providerStats) ==
  SortInPlace(Spread(Props("providerStats", providerStats), "providerStats", "sortedProviders"),
              "sortedProviders", "provider")

(* regional-cost-comparison.tsx:41-77: the reduce reads vmData and fills a  *)
(* new object; the keys and the mapped regions are new arrays.             *)
RegionalCostComparisonArrays(vmData) ==
  LET keys == Distinct([i \in DOMAIN vmData |-> vmData[i].region])
      h1 == Spread(Props("vmData", vmData) , "vmData", "keys")
      h2 == SortInPlace([h1 EXCEPT !["keys"] = keys], "keys", "default")
  IN [r \in DOMAIN h2 \cup {"regions"} |->
        IF r = "regions" THEN RegionalCostComparison(vmData).regions ELSE h2[r]]

BestValueLabels == <<"Lowest Cost", "Best CPU Value", "Best Memory Value">>

TableSortFields == {"price_per_hour_usd", "vm_name"}

(* The dashboard's components rendered with the arrays the page fetched. *)
RenderDashboard ==
  /\ response.op = "dashboard"
  /\ response' =
       [op |-> "render",
        vmData |-> response.vmData,
        providerStats |-> response.providerStats,
        vmDataAfter |->
          {findBestValueArrays(response.vmData, BestValueLabels[k]).vmData : k \in 1..3}
            \cup {RegionalCostComparisonArrays(response.vmData).vmData},
        providerStatsAfter |->
          {ComparisonOverviewArrays(response.providerStats).providerStats,
           MainCostComparisonCardArrays(response.providerStats).providerStats,
           MainCostComparisonCardOverviewArrays(response.providerStats).providerStats},
        winners |-> [k \in 1..3 |->
                       Take(findBestValueArrays(response.vmData, BestValueLabels[k]).sorted, 1)]]
  /\ UNCHANGED <<vmStore, storageStore, client>>

(* ComparisonTable on the provider page, sorted by a header click. *)
RenderComparisonTable(sortField, sortDirection) ==
  /\ response.op = "provider-page"
  /\ response.status = "ok"
  /\ LET arrays == sortedVMDataArrays(response.content.vmData, sortField, sortDirection)
     IN response' = [op |-> "render-table",
                     sortField |-> sortField, sortDirection |-> sortDirection,
                     vmData |-> response.content.vmData,
                     vmDataAfter |-> arrays.vmData,
                     sortedVMData |-> arrays.sortedVMData]
  /\ UNCHANGED <<vmStore, storageStore, client>>

InitRender ==
  /\ vmStore \in SeqsUpTo(OnDemandVMPricing, MaxCatalog)
  /\ storageStore = <<>>
  /\ response = NoResponse
  /\ client = NoClient

NextRender ==
  \/ DashboardPage
  \/ RenderDashboard
  \/ \E param \in ProviderParams : ProviderPage(param)
  \/ \E sortField \in TableSortFields, sortDirection \in {"asc", "desc"} :
       RenderComparisonTable(sortField, sortDirection)

SpecRender == InitRender /\ [][NextRender]_vars

(* C13: rendering a component leaves the array of its props as it was,     *)
(* order and elements, and the sorted copy it works on holds the same      *)
(* elements.                                                               *)
C13_PropsUnchanged ==
  /\ response.op = "render" =>
       /\ response.vmDataAfter = {response.vmData}
       /\ response.providerStatsAfter = {response.providerStats}
  /\ response.op = "render-table" =>
       /\ response.vmDataAfter = response.vmData
       /\ response.sortedVMData \in Orderings(response.vmData)

C13_Witness ==
  /\ response.op = "render"
  /\ Len(response.vmData) = 2
  /\ \E k \in 1..3 : response.winners[k] # Take(response.vmData, 1)

(* C18: the capacity statistics of the storage statistics endpoint are     *)
(* those of the rows that match every supplied filter, the price bounds    *)
(* included, and have a capacity price: their least, their greatest and    *)
(* their mean.                                                             *)
CapacityPrices(S) == {storageStore[k].capacity_price : k \in S}

C18_CapacityStatsOfFilteredRows ==
  response.op = "storage-stats" =>
    LET priced == PricedStorage(Selected(response.filters))
    IN priced # {} =>
         /\ response.capacityPriceStats.min = OrZero(MinSet(CapacityPrices(priced)))
         /\ response.capacityPriceStats.max = OrZero(MaxSet(CapacityPrices(priced)))
         /\ CapacityTotal(priced) > 0 => IsMeanOf(response.capacityPriceStats.avg, priced)

(***************************************************************************)
(* The list endpoints GET /api/virtual-machines and GET /api/storage, and  *)
(* GET /api/virtual-machines/stats.  A query parameter that is absent is   *)
(* NULL (numbers) or NullStr (strings); searchParams.get gives null for    *)
(* it, and the empty string is as falsy as null.                           *)
(***************************************************************************)
Supplied(x) == x # NULL

SuppliedStr(x) == x # NullStr /\ x # ""

(* contains, mode insensitive, over the strings of the model *)
Contains(s, search) ==
  CASE search = "std" -> s \in {"d2.std", "n1.std"}
    [] search = "blob" -> s = "blob"
    [] OTHER -> FALSE

(* parseInt(searchParams.get(name) || default) *)
ParseOr(x, default) == IF Supplied(x) THEN x ELSE default

DefaultPageLimit == 50

Skip(s, n) == IF n >= Len(s) THEN <<>> ELSE SubSeq(s, n + 1, Len(s))

(* Math.ceil(totalCount / limit) *)
Ceil(n, d) == (n + d - 1) \div d

OrderBy(sortBy, sortOrder) ==
  CASE sortBy = "price_per_hour_usd" /\ sortOrder = "asc" -> "orderBy price_per_hour_usd asc"
    [] sortBy = "price_per_hour_usd" /\ sortOrder = "desc" -> "orderBy price_per_hour_usd desc"
    [] sortBy = "vm_name" /\ sortOrder = "asc" -> "orderBy vm_name asc"
    [] sortBy = "vm_name" /\ sortOrder = "desc" -> "orderBy vm_name desc"
    [] sortBy = "capacity_price" /\ sortOrder = "asc" -> "orderBy capacity_price asc"
    [] sortBy = "capacity_price" /\ sortOrder = "desc" -> "orderBy capacity_price desc"
    [] sortBy = "read_price" /\ sortOrder = "asc" -> "orderBy read_price asc"
    [] sortBy = "read_price" /\ sortOrder = "desc" -> "orderBy read_price desc"

(* prisma/schema.prisma: the columns of the two tables.  A findMany whose  *)
(* orderBy names anything else is rejected by the Prisma client.          *)
OnDemandVMPricingColumns ==
  {"id", "vm_name", "provider_name", "virtual_cpu_count", "memory_gb", "cpu_arch",
   "price_per_hour_usd", "gpu_count", "gpu_name", "gpu_memory", "os_type", "region",
   "other_details", "createdAt", "updatedAt"}

StoragePricingColumns ==
  {"id", "provider_name", "service_name", "storage_class", "region", "access_tier",
   "capacity_price", "read_price", "write_price", "flat_item_price", "other_details",
   "createdAt", "updatedAt"}

(* hasNextPage computed as a full page having been returned *)
PaginationByFullPage(page, limit, totalCount) ==
  [page |-> page, limit |-> limit, totalCount |-> totalCount,
   totalPages |-> Ceil(totalCount, limit),
   hasNextPage |-> totalCount - (page - 1) * limit >= limit,
   hasPrevPage |-> page > 1]

Pagination(page, limit, totalCount) ==
  [page |-> page, limit |-> limit, totalCount |-> totalCount,
   totalPages |-> Ceil(totalCount, limit),
   hasNextPage |-> page < Ceil(totalCount, limit),
   hasPrevPage |-> page > 1]

(* unnamed/part_008, lines 31-57 *)
vmWhere(r, q) ==
  /\ (SuppliedStr(q.provider) => r.provider_name = q.provider)
  /\ (SuppliedStr(q.region) => r.region = q.region)
  /\ (SuppliedStr(q.osType) => r.os_type = q.osType)
  /\ (Supplied(q.minPrice) => r.price_per_hour_usd >= q.minPrice)
  /\ (Supplied(q.maxPrice) => r.price_per_hour_usd <= q.maxPrice)
  /\ (Supplied(q.minCpu) => r.virtual_cpu_count >= q.minCpu)
  /\ (Supplied(q.maxCpu) => r.virtual_cpu_count <= q.maxCpu)
  /\ (Supplied(q.minMemory) => r.memory_gb >= q.minMemory)
  /\ (Supplied(q.maxMemory) => r.memory_gb <= q.maxMemory)
  /\ (SuppliedStr(q.search) => Contains(r.vm_name, q.search))

virtualMachinesGET(store, q) ==
  LET page == ParseOr(q.page, 1)
      limit == ParseOr(q.limit, DefaultPageLimit)
      offset == (page - 1) * limit
      sortBy == IF SuppliedStr(q.sortBy) THEN q.sortBy ELSE "price_per_hour_usd"
      sortOrder == IF SuppliedStr(q.sortOrder) THEN q.sortOrder ELSE "asc"
      matching == SelectSeq(store, LAMBDA r : vmWhere(r, q))
      data == Take(Skip(StableSort(matching, OrderBy(sortBy, sortOrder)), offset), limit)
  IN IF sortBy \in OnDemandVMPricingColumns
     THEN [op |-> "virtual-machines", status |-> 200, query |-> q, data |-> data,
           pagination |-> Pagination(page, limit, Len(matching))]
     ELSE [op |-> "virtual-machines", status |-> 500, query |-> q,
           error |-> "Failed to fetch VM data"]

(* api/virtual-machines/stats/route.ts with the maxCpu bound left out *)
vmStatsWhereNoMaxCpu(r, q) ==
  /\ (SuppliedStr(q.provider) => r.provider_name = q.provider)
  /\ (SuppliedStr(q.region) => r.region = q.region)
  /\ (SuppliedStr(q.osType) => r.os_type = q.osType)
  /\ (Supplied(q.minPrice) => r.price_per_hour_usd >= q.minPrice)
  /\ (Supplied(q.maxPrice) => r.price_per_hour_usd <= q.maxPrice)
  /\ (Supplied(q.minCpu) => r.virtual_cpu_count >= q.minCpu)
  /\ (Supplied(q.minMemory) => r.memory_gb >= q.minMemory)
  /\ (Supplied(q.maxMemory) => r.memory_gb <= q.maxMemory)

(* api/virtual-machines/stats/route.ts, lines 21-40 *)
vmStatsWhere(r, q) ==
  /\ (SuppliedStr(q.provider) => r.provider_name = q.provider)
  /\ (SuppliedStr(q.region) => r.region = q.region)
  /\ (SuppliedStr(q.osType) => r.os_type = q.osType)
  /\ (Supplied(q.minPrice) => r.price_per_hour_usd >= q.minPrice)
  /\ (Supplied(q.maxPrice) => r.price_per_hour_usd <= q.maxPrice)
  /\ (Supplied(q.minCpu) => r.virtual_cpu_count >= q.minCpu)
  /\ (Supplied(q.maxCpu) => r.virtual_cpu_count <= q.maxCpu)
  /\ (Supplied(q.minMemory) => r.memory_gb >= q.minMemory)
  /\ (Supplied(q.maxMemory) => r.memory_gb <= q.maxMemory)

vmStatsGET(store, q) ==
  LET rows == SelectSeq(store, LAMBDA r : vmStatsWhere(r, q))
  IN [op |-> "vm-stats", status |-> 200, query |-> q,
      totalCount |-> Len(rows),
      priceStats |-> PriceStats([i \in DOMAIN rows |-> rows[i].price_per_hour_usd]),
      cpuStats |-> PriceStats([i \in DOMAIN rows |-> rows[i].virtual_cpu_count]),
      memoryStats |-> PriceStats([i \in DOMAIN rows |-> rows[i].memory_gb])]

(* api/storage: the list endpoint, lines 101-117 *)
storageWhere(r, q) ==
  /\ (SuppliedStr(q.provider) => r.provider_name = q.provider)
  /\ (SuppliedStr(q.region) => r.region = q.region)
  /\ (SuppliedStr(q.storageClass) => r.storage_class = q.storageClass)
  /\ (SuppliedStr(q.accessTier) => r.access_tier = q.accessTier)
  /\ (Supplied(q.minPrice) => r.capacity_price # NULL /\ r.capacity_price >= q.minPrice)
  /\ (Supplied(q.maxPrice) => r.capacity_price # NULL /\ r.capacity_price <= q.maxPrice)
  /\ (SuppliedStr(q.search) => Contains(r.service_name, q.search)
                              \/ Contains(r.storage_class, q.search))

storageGET(store, q) ==
  LET page == ParseOr(q.page, 1)
      limit == ParseOr(q.limit, DefaultPageLimit)
      offset == (page - 1) * limit
      sortBy == IF SuppliedStr(q.sortBy) THEN q.sortBy ELSE "capacity_price"
      sortOrder == IF SuppliedStr(q.sortOrder) THEN q.sortOrder ELSE "asc"
      matching == SelectSeq(store, LAMBDA r : storageWhere(r, q))
      data == Take(Skip(StableSort(matching, OrderBy(sortBy, sortOrder)), offset), limit)
  IN IF sortBy \in StoragePricingColumns
     THEN [op |-> "storage", status |-> 200, query |-> q, data |-> data,
           pagination |-> Pagination(page, limit, Len(matching))]
     ELSE [op |-> "storage", status |-> 500, query |-> q,
           error |-> "Failed to fetch storage data"]

NoVMQuery ==
  [page |-> NULL, limit |-> NULL, provider |-> NullStr, region |-> NullStr, osType |-> NullStr,
   minPrice |-> NULL, maxPrice |-> NULL, minCpu |-> NULL, maxCpu |-> NULL,
   minMemory |-> NULL, maxMemory |-> NULL, search |-> NullStr,
   sortBy |-> NullStr, sortOrder |-> NullStr]

VMFilterChoices ==
  { NoVMQuery,
    [NoVMQuery EXCEPT !.provider = "AWS", !.sortBy = "vm_name", !.sortOrder = "desc"],
    [NoVMQuery EXCEPT !.minPrice = 1, !.region = "asia", !.sortOrder = "desc"],
    [NoVMQuery EXCEPT !.maxCpu = 1, !.maxPrice = MaxLimit, !.sortBy = "vm_name"],
    [NoVMQuery EXCEPT !.osType = "LINUX", !.minCpu = 2, !.minMemory = 4, !.search = "std"],
    [NoVMQuery EXCEPT !.maxMemory = 2, !.provider = "",
                      !.sortBy = "price_per_hour_usd", !.sortOrder = "asc"] }

VMSortings ==
  { [sortBy |-> NullStr, sortOrder |-> NullStr],
    [sortBy |-> "price_per_hour_usd", sortOrder |-> "desc"],
    [sortBy |-> "vm_name", sortOrder |-> "asc"],
    [sortBy |-> "vm_name", sortOrder |-> "desc"] }

Pages == {NULL} \cup (1 .. MaxLimit + 1)

PageLimits == {NULL} \cup (1 .. MaxLimit)

NoStorageQuery ==
  [page |-> NULL, limit |-> NULL, provider |-> NullStr, region |-> NullStr,
   storageClass |-> NullStr, accessTier |-> NullStr, minPrice |-> NULL, maxPrice |-> NULL,
   search |-> NullStr, sortBy |-> NullStr, sortOrder |-> NullStr]

StorageQueryChoices ==
  { [NoStorageQuery EXCEPT !.provider = f.provider, !.minPrice = f.minPrice,
                           !.maxPrice = f.maxPrice,
                           !.search = IF f.provider = NullStr THEN "blob" ELSE NullStr,
                           !.sortBy = IF f.maxPrice = NULL THEN NullStr ELSE "capacity_price",
                           !.sortOrder = IF f.minPrice = NULL THEN "desc" ELSE NullStr] :
    f \in StorageFilters }

VirtualMachinesGET(q) ==
  /\ response' = virtualMachinesGET(vmStore, q)
  /\ UNCHANGED <<vmStore, storageStore, client>>

VMStatsGET(q) ==
  /\ response' = vmStatsGET(vmStore, q)
  /\ UNCHANGED <<vmStore, storageStore, client>>

StorageGET(q) ==
  /\ response' = storageGET(storageStore, q)
  /\ UNCHANGED <<vmStore, storageStore, client>>

(* The filter parameters of a query, without page, limit, sorting, search. *)
FiltersOf(q) ==
  [q EXCEPT !.page = NULL, !.limit = NULL, !.search = NullStr,
            !.sortBy = NullStr, !.sortOrder = NullStr]

ListOffers ==
  {r \in OnDemandVMPricing : r.price_per_hour_usd \in {1, 2}
                               /\ (r.provider_name = "AWS" => r.region = "asia")}

StorageSeeds ==
  {r \in StoragePricing : r.provider_name = "AWS" /\ r.capacity_price \in {NULL, 1}}

InitList ==
  /\ \/ vmStore \in SeqsUpTo(ListOffers, MaxCatalog) /\ storageStore = <<>>
     \/ vmStore = <<>> /\ storageStore \in SeqsUpTo(StorageSeeds, MaxStorage)
  /\ response = NoResponse
  /\ client = NoClient

NextList ==
  \/ \E f \in VMFilterChoices, page \in Pages, limit \in PageLimits :
       VirtualMachinesGET([f EXCEPT !.page = page, !.limit = limit])
  \/ \E f \in VMFilterChoices : VMStatsGET(FiltersOf(f))
  \/ \E q \in StorageQueryChoices, page \in Pages, limit \in PageLimits :
       StorageGET([q EXCEPT !.page = page, !.limit = limit])
  \/ \E f \in StorageFilters : StorageStatsGET(f)

SpecList == InitList /\ [][NextList]_vars

StorageQueryOf(f) ==
  [NoStorageQuery EXCEPT !.provider = f.provider, !.region = f.region,
                         !.storageClass = f.storageClass, !.accessTier = f.accessTier,
                         !.minPrice = f.minPrice, !.maxPrice = f.maxPrice]

(* C19: for the same table and the same filter parameters the statistics   *)
(* endpoint counts what the list endpoint counts, whatever page, limit and *)
(* sorting the list is asked for.                                          *)
C19_StatsCountIsListCount ==
  /\ response.op = "vm-stats" =>
       \A page \in Pages, limit \in PageLimits, sorting \in VMSortings :
         virtualMachinesGET(vmStore,
             [response.query EXCEPT !.page = page, !.limit = limit,
                                    !.sortBy = sorting.sortBy,
                                    !.sortOrder = sorting.sortOrder]).pagination.totalCount
           = response.totalCount
  /\ (response.op = "virtual-machines" /\ ~SuppliedStr(response.query.search)) =>
       vmStatsGET(vmStore, FiltersOf(response.query)).totalCount
         = response.pagination.totalCount
  /\ response.op = "storage-stats" =>
       \A page \in Pages, limit \in PageLimits :
         storageGET(storageStore,
             [StorageQueryOf(response.filters) EXCEPT !.page = page, !.limit = limit])
               .pagination.totalCount
           = response.totalCount
  /\ (response.op = "storage" /\ ~SuppliedStr(response.query.search)) =>
       storageStatsGET(storageStore,
           [provider |-> response.query.provider, region |-> response.query.region,
            storageClass |-> response.query.storageClass,
            accessTier |-> response.query.accessTier,
            minPrice |-> response.query.minPrice,
            maxPrice |-> response.query.maxPrice]).totalCount
         = response.pagination.totalCount

C19_Witness ==
  /\ response.op = "vm-stats"
  /\ Supplied(response.query.maxCpu)
  /\ Len(vmStore) = 2
  /\ response.totalCount = 1

(* C20: a list answer holds the rows from offset (page-1)*limit on, at     *)
(* most limit of them; totalPages is the count divided by the limit,       *)
(* rounded up; there is a previous page exactly from page 2 on, and a next *)
(* page exactly when rows match beyond this page.                          *)
Least(a, b) == IF a < b THEN a ELSE b

RowsOnPage(total, page, limit) ==
  IF total > (page - 1) * limit THEN Least(limit, total - (page - 1) * limit) ELSE 0

C20_PageArithmetic ==
  response.op \in {"virtual-machines", "storage"} =>
    LET page == response.pagination.page
        limit == response.pagination.limit
        total == response.pagination.totalCount
    IN /\ page = (IF response.query.page = NULL THEN 1 ELSE response.query.page)
       /\ limit = (IF response.query.limit = NULL THEN DefaultPageLimit ELSE response.query.limit)
       /\ Len(response.data) <= limit
       /\ Len(response.data) = RowsOnPage(total, page, limit)
       /\ response.pagination.totalPages * limit >= total
       /\ (response.pagination.totalPages - 1) * limit < total \/ total = 0
       /\ (total = 0 => response.pagination.totalPages = 0)
       /\ response.pagination.hasPrevPage = (page > 1)
       /\ response.pagination.hasNextPage = (page * limit < total)

C20_Witness ==
  /\ response.op = "virtual-machines"
  /\ response.pagination.page = 2
  /\ response.pagination.limit = 1
  /\ response.pagination.totalCount = 2
  /\ Len(response.data) = 1
  /\ ~response.pagination.hasNextPage
  /\ response.pagination.hasPrevPage

(***************************************************************************)
(* The Virtual Machines page in the browser: app/virtual-machines/page.tsx *)
(* over the hooks useVirtualMachines and useVMStats.  The page keeps       *)
(* pagination, filters and sorting as state; every render hands them to    *)
(* the hooks, and an effect copies the pagination of the data the hook     *)
(* returns into the state.  React Query keeps one cache entry per query    *)
(* key, runs at most one fetch per entry, and returns to the page the data *)
(* of the entry of the key of this render.  A handler, the render it       *)
(* causes and the effect of that render are one step.  An empty text       *)
(* filter ("") is NULL; the page sizes 10, 25, 50, 100 are scaled down to  *)
(* 1..MaxLimit.  selected is the selection the user made last.             *)
(***************************************************************************)
MaxClicks == 2

PageSizeOptions == 1 .. MaxLimit

InitialPageSize == 1

InitialFilters ==
  [provider |-> "all", region |-> "all", osType |-> "all", minPrice |-> NULL, maxPrice |-> NULL,
   minCpu |-> NULL, maxCpu |-> NULL, minMemory |-> NULL, maxMemory |-> NULL]

InitialSorting == [sortBy |-> "price_per_hour_usd", sortOrder |-> "asc"]

InitialPagination ==
  [page |-> 1, limit |-> InitialPageSize, totalCount |-> 0, totalPages |-> 0,
   hasNextPage |-> FALSE, hasPrevPage |-> FALSE]

FilterStates ==
  {[InitialFilters EXCEPT !.provider = pr, !.minPrice = lo] : pr \in {"all", "AWS"}, lo \in {NULL, 1}}

SortingStates ==
  {[sortBy |-> column, sortOrder |-> order] :
     column \in {"price_per_hour_usd", "vm_name"}, order \in {"asc", "desc"}}

PageNumbers == 1 .. MaxCatalog

(* the query key of useVirtualMachines as the documentation gives it *)
vmQueryKeyWithoutSorting(page, pageSize, filters, sorting) ==
  [page |-> page, pageSize |-> pageSize, filters |-> filters, sorting |-> InitialSorting]

(* queryKey: ["virtual-machines", page, pageSize, filters, sorting] *)
vmQueryKey(page, pageSize, filters, sorting) ==
  [page |-> page, pageSize |-> pageSize, filters |-> filters, sorting |-> sorting]

QueryKeys ==
  [page : PageNumbers, pageSize : PageSizeOptions, filters : FilterStates,
   sorting : SortingStates]

(* Object.entries(filters).filter(value !== "" && value !== "all") *)
SentFilter(value) == IF value = "all" THEN NullStr ELSE value

fetchVMData(page, pageSize, filters, sorting) ==
  [page |-> page, limit |-> pageSize,
   provider |-> SentFilter(filters.provider), region |-> SentFilter(filters.region),
   osType |-> SentFilter(filters.osType),
   minPrice |-> filters.minPrice, maxPrice |-> filters.maxPrice,
   minCpu |-> filters.minCpu, maxCpu |-> filters.maxCpu,
   minMemory |-> filters.minMemory, maxMemory |-> filters.maxMemory,
   search |-> NullStr, sortBy |-> sorting.sortBy, sortOrder |-> sorting.sortOrder]

fetchVMStats(filters) ==
  FiltersOf(fetchVMData(1, InitialPageSize, filters, InitialSorting))

IdleEntry ==
  [hasData |-> FALSE, data |-> NoResponse, stale |-> FALSE, fetching |-> FALSE,
   failed |-> FALSE, request |-> NoVMQuery]

(* useQuery on a render: the entry of the key is fetched when it has no    *)
(* data or stale data, no fetch of it is running and it has not failed;    *)
(* the fetch runs the queryFn of this render.                              *)
Observe(queries, key, request) ==
  IF ~queries[key].fetching /\ ~queries[key].failed
       /\ (~queries[key].hasData \/ queries[key].stale)
  THEN [queries EXCEPT ![key].fetching = TRUE, ![key].request = request]
  ELSE queries

(* The hooks of the Storage page: useStorage and useStorageStats.          *)
storageQueryKey(page, pageSize, filters, sorting) ==
  [page |-> page, pageSize |-> pageSize, filters |-> filters, sorting |-> sorting]

fetchStorageData(page, pageSize, filters, sorting) ==
  [page |-> page, limit |-> pageSize,
   provider |-> SentFilter(filters.provider), region |-> SentFilter(filters.region),
   storageClass |-> SentFilter(filters.storageClass),
   accessTier |-> SentFilter(filters.accessTier),
   minPrice |-> filters.minPrice, maxPrice |-> filters.maxPrice,
   search |-> NullStr, sortBy |-> sorting.sortBy, sortOrder |-> sorting.sortOrder]

fetchStorageStats(filters) ==
  [provider |-> SentFilter(filters.provider), region |-> SentFilter(filters.region),
   storageClass |-> SentFilter(filters.storageClass),
   accessTier |-> SentFilter(filters.accessTier),
   minPrice |-> filters.minPrice, maxPrice |-> filters.maxPrice]

StorageInitialFilters ==
  [provider |-> "all", region |-> "all", storageClass |-> "all", accessTier |-> "all",
   minPrice |-> NULL, maxPrice |-> NULL]

StorageInitialSorting == [sortBy |-> "capacity_price", sortOrder |-> "asc"]

StoragePageFilters ==
  {[StorageInitialFilters EXCEPT !.provider = pr, !.accessTier = tier, !.minPrice = lo] :
     pr \in {"all", "AWS"}, tier \in {"all", "ARCHIVE"}, lo \in {NULL, 1}}

StorageFilterStates == {f \in StoragePageFilters : f.accessTier = "all"}

StoragePageSortings ==
  {[sortBy |-> column, sortOrder |-> order] :
     column \in {"capacity_price", "read_price"}, order \in {"asc", "desc"}}
    \cup {[sortBy |-> "price_per_hour_usd", sortOrder |-> "asc"]}

StorageHookArgs ==
  [page : PageNumbers, pageSize : PageSizeOptions, filters : StoragePageFilters,
   sorting : StoragePageSortings]

StorageQueryKeys ==
  [page : PageNumbers, pageSize : PageSizeOptions, filters : StorageFilterStates,
   sorting : StoragePageSortings]

PageSessions == {"virtual-machines", "storage"}

KeyOf(c) ==
  IF c.session = "storage"
  THEN storageQueryKey(c.pagination.page, c.pagination.limit, c.filters, c.sorting)
  ELSE vmQueryKey(c.pagination.page, c.pagination.limit, c.filters, c.sorting)

(* DataTable: useState(sorting ? [{id: sortBy, desc: sortOrder === "desc"}] : []) *)
InitialSortingState(sorting) ==
  <<[id |-> sorting.sortBy, desc |-> sorting.sortOrder = "desc"]>>

(* The table is rendered when both queries have data; while it is not, the *)
(* DataTable is unmounted, and it takes its sorting state from the props   *)
(* when it is mounted again.                                               *)
MountTable(c) ==
  IF c.queries[KeyOf(c)].hasData /\ c.statsQueries[c.filters].hasData
  THEN c
  ELSE [c EXCEPT !.sortingState = InitialSortingState(c.sorting)]

(* The render after a state change: both hooks, then the effect.           *)
RenderVMPage(c) ==
  LET key == KeyOf(c)
      queries == Observe(c.queries, key,
                         fetchVMData(c.pagination.page, c.pagination.limit, c.filters, c.sorting))
      stats == Observe(c.statsQueries, c.filters, fetchVMStats(c.filters))
      vmData == queries[key]
  IN MountTable([c EXCEPT !.queries = queries, !.statsQueries = stats,
                          !.pagination = IF vmData.hasData THEN vmData.data.pagination ELSE @])

RenderStoragePage(c) ==
  LET key == KeyOf(c)
      queries == Observe(c.queries, key,
                         fetchStorageData(c.pagination.page, c.pagination.limit,
                                          c.filters, c.sorting))
      stats == Observe(c.statsQueries, c.filters, fetchStorageStats(c.filters))
      storageData == queries[key]
  IN MountTable([c EXCEPT !.queries = queries, !.statsQueries = stats,
                          !.pagination = IF storageData.hasData
                                         THEN storageData.data.pagination ELSE @])

Render(c) == IF c.session = "storage" THEN RenderStoragePage(c) ELSE RenderVMPage(c)

(* What the page shows: the error screen, the spinner, or the table with   *)
(* rows and pagination.                                                    *)
VMPageView(c) ==
  LET vmData == c.queries[KeyOf(c)]
      isLoading == ~vmData.hasData
      statsLoading == ~c.statsQueries[c.filters].hasData
  IN IF vmData.failed
     THEN [op |-> "virtual-machines-page", table |-> FALSE, error |-> TRUE]
     ELSE IF isLoading \/ statsLoading
     THEN [op |-> "virtual-machines-page", table |-> FALSE, error |-> FALSE]
     ELSE [op |-> "virtual-machines-page", table |-> TRUE, error |-> FALSE,
           data |-> vmData.data.data, fetched |-> vmData.data.query,
           pagination |-> c.pagination]

StoragePageView(c) ==
  LET storageData == c.queries[KeyOf(c)]
      isLoading == ~storageData.hasData
      statsLoading == ~c.statsQueries[c.filters].hasData
  IN IF storageData.failed
     THEN [op |-> "storage-page", table |-> FALSE, error |-> TRUE,
           fetched |-> storageData.request]
     ELSE IF isLoading \/ statsLoading
     THEN [op |-> "storage-page", table |-> FALSE, error |-> FALSE]
     ELSE [op |-> "storage-page", table |-> TRUE, error |-> FALSE,
           data |-> storageData.data.data, fetched |-> storageData.data.query,
           pagination |-> c.pagination]

Show(c) ==
  /\ client' = c
  /\ response' = IF c.session = "storage" THEN StoragePageView(c) ELSE VMPageView(c)
  /\ UNCHANGED <<vmStore, storageStore>>

(* if (error) return the error screen: no filters, no table *)
PageShown ==
  /\ client.session \in PageSessions
  /\ ~client.queries[KeyOf(client)].failed

TableShown ==
  /\ PageShown
  /\ client.queries[KeyOf(client)].hasData
  /\ client.statsQueries[client.filters].hasData

Click(c) == [c EXCEPT !.clicks = @ + 1]

handlePageChange(page) ==
  /\ TableShown
  /\ client.clicks < MaxClicks
  /\ page <= client.pagination.totalPages
  /\ Show(Render(Click([client EXCEPT !.pagination.page = page,
                                      !.selected.page = page])))

(* handlePageSizeChange leaving the page where it is *)
handlePageSizeChangeKeepPage(size) ==
  /\ TableShown
  /\ client.clicks < MaxClicks
  /\ Show(Render(Click([client EXCEPT !.pagination.limit = size,
                                      !.selected.limit = size])))

handlePageSizeChange(size) ==
  /\ TableShown
  /\ client.clicks < MaxClicks
  /\ Show(Render(Click([client EXCEPT !.pagination.page = 1, !.pagination.limit = size,
                                      !.selected.page = 1, !.selected.limit = size])))

handleFilterChange(key, value) ==
  /\ PageShown
  /\ client.clicks < MaxClicks
  /\ Show(Render(Click([client EXCEPT !.filters[key] = value, !.pagination.page = 1,
                                      !.selected.filters[key] = value,
                                      !.selected.page = 1])))

(* setSorting({sortBy, sortOrder}); setPagination(prev => ({...prev, page: 1})) *)
handleSortingChange(c, sortBy, sortOrder) ==
  LET sorting == [sortBy |-> sortBy, sortOrder |-> sortOrder]
  IN [c EXCEPT !.sorting = sorting, !.pagination.page = 1,
               !.selected.sorting = sorting, !.selected.page = 1]

clearFilters ==
  /\ PageShown
  /\ client.clicks < MaxClicks
  /\ LET initial == IF client.session = "storage" THEN StorageInitialFilters
                    ELSE InitialFilters
     IN Show(Render(Click([client EXCEPT !.filters = initial, !.pagination.page = 1,
                                         !.selected.filters = initial,
                                         !.selected.page = 1])))

(* The columns whose headers are clicked.                                  *)
VMTableColumns == {"price_per_hour_usd", "vm_name"}

StorageTableColumns == {"capacity_price", "read_price"}

TableColumns(session) ==
  IF session = "storage" THEN StorageTableColumns ELSE VMTableColumns

(* TanStack Table, column.getIsSorted *)
getIsSorted(sortingState, column) ==
  IF Len(sortingState) > 0 /\ sortingState[1].id = column
  THEN (IF sortingState[1].desc THEN "desc" ELSE "asc")
  ELSE "none"

(* TanStack Table, column.getNextSortingOrder: the first direction of the  *)
(* column, then the other direction, then no sorting.                      *)
getNextSortingOrder(sortingState, column, firstSortDir) ==
  LET isSorted == getIsSorted(sortingState, column)
  IN IF isSorted = "none" THEN firstSortDir
     ELSE IF isSorted # firstSortDir THEN "none"
     ELSE IF isSorted = "desc" THEN "asc" ELSE "desc"

(* TanStack Table, column.toggleSorting without multi-sort *)
toggleSorting(sortingState, column, firstSortDir) ==
  LET next == getNextSortingOrder(sortingState, column, firstSortDir)
  IN IF next = "none" THEN <<>> ELSE <<[id |-> column, desc |-> next = "desc"]>>

(* A click on a column header: DataTable's onSortingChange with the        *)
(* updater of the toggle, which calls the handler of the hosting page.     *)
(* The first direction of a column depends on the values in it.            *)
onSortingChange(column, firstSortDir) ==
  /\ TableShown
  /\ client.clicks < MaxClicks
  /\ column \in TableColumns(client.session)
  /\ LET newSorting == toggleSorting(client.sortingState, column, firstSortDir)
         c == [client EXCEPT !.sortingState = newSorting]
     IN Show(Render(Click(
          IF Len(newSorting) > 0
          THEN handleSortingChange(c, newSorting[1].id,
                                   IF newSorting[1].desc THEN "desc" ELSE "asc")
          ELSE handleSortingChange(c, "price_per_hour_usd", "asc"))))

(* What a fetch that is answered leaves in the entry of its key: the data  *)
(* of a 200 answer; queryFn throws on any other answer.                    *)
Settled(entry, answer) ==
  IF answer.status = 200
  THEN [entry EXCEPT !.hasData = TRUE, !.data = answer, !.stale = FALSE, !.fetching = FALSE]
  ELSE [entry EXCEPT !.failed = TRUE, !.fetching = FALSE]

(* A fetch that is answered sets the page's pagination, whatever the page  *)
(* has selected by then.                                                   *)
AnswerSetsState(key) ==
  /\ client.session = "virtual-machines"
  /\ client.queries[key].fetching
  /\ LET data == virtualMachinesGET(vmStore, client.queries[key].request)
     IN Show([client EXCEPT !.queries[key] = Settled(@, data),
                            !.pagination = data.pagination])

(* The answer to a running fetch of useVirtualMachines arrives: it goes    *)
(* into the entry of its key, and the page renders again.                  *)
VMDataArrives(key) ==
  /\ client.session = "virtual-machines"
  /\ client.queries[key].fetching
  /\ LET data == virtualMachinesGET(vmStore, client.queries[key].request)
     IN Show(Render([client EXCEPT !.queries[key] = Settled(@, data)]))

VMStatsArrive(filters) ==
  /\ client.session = "virtual-machines"
  /\ client.statsQueries[filters].fetching
  /\ LET data == vmStatsGET(vmStore, client.statsQueries[filters].request)
     IN Show(Render([client EXCEPT !.statsQueries[filters] = Settled(@, data)]))

StorageDataArrives(key) ==
  /\ client.session = "storage"
  /\ client.queries[key].fetching
  /\ LET data == storageGET(storageStore, client.queries[key].request)
     IN Show(Render([client EXCEPT !.queries[key] = Settled(@, data)]))

StorageStatsArrive(filters) ==
  /\ client.session = "storage"
  /\ client.statsQueries[filters].fetching
  /\ LET data == storageStatsGET(storageStore, client.statsQueries[filters].request)
     IN Show(Render([client EXCEPT !.statsQueries[filters] = Settled(@, data)]))

(* staleTime: 2 minutes after it was fetched an entry is stale *)
VMStaleTimeElapses ==
  /\ client.session = "virtual-machines"
  /\ \E key \in QueryKeys : client.queries[key].hasData /\ ~client.queries[key].stale
  /\ client' = [client EXCEPT !.queries =
                  [key \in QueryKeys |-> IF @[key].hasData THEN [@[key] EXCEPT !.stale = TRUE]
                                         ELSE @[key]]]
  /\ UNCHANGED <<vmStore, storageStore, response>>

StorageStaleTimeElapses ==
  /\ client.session = "storage"
  /\ \E key \in StorageQueryKeys : client.queries[key].hasData /\ ~client.queries[key].stale
  /\ client' = [client EXCEPT !.queries =
                  [key \in StorageQueryKeys |->
                     IF @[key].hasData THEN [@[key] EXCEPT !.stale = TRUE] ELSE @[key]]]
  /\ UNCHANGED <<vmStore, storageStore, response>>

(* The page after it is mounted: the first render has started both fetches. *)
MountedVMPage ==
  RenderVMPage([session |-> "virtual-machines",
                pagination |-> InitialPagination,
                filters |-> InitialFilters,
                sorting |-> InitialSorting,
                sortingState |-> InitialSortingState(InitialSorting),
                selected |-> [page |-> 1, limit |-> InitialPageSize,
                              filters |-> InitialFilters, sorting |-> InitialSorting],
                queries |-> [key \in QueryKeys |-> IdleEntry],
                statsQueries |-> [f \in FilterStates |-> IdleEntry],
                clicks |-> 0])

MountedStoragePage ==
  RenderStoragePage([session |-> "storage",
                     pagination |-> InitialPagination,
                     filters |-> StorageInitialFilters,
                     sorting |-> StorageInitialSorting,
                     sortingState |-> InitialSortingState(StorageInitialSorting),
                     selected |-> [page |-> 1, limit |-> InitialPageSize,
                                   filters |-> StorageInitialFilters,
                                   sorting |-> StorageInitialSorting],
                     queries |-> [key \in StorageQueryKeys |-> IdleEntry],
                     statsQueries |-> [f \in StorageFilterStates |-> IdleEntry],
                     clicks |-> 0])

PageCatalogs ==
  {s \in SeqsUpTo(ListOffers, MaxCatalog) :
     /\ Len(s) = MaxCatalog
     /\ s[1].provider_name = "AWS"
     /\ s[MaxCatalog].provider_name = "GCP"
     /\ s[MaxCatalog].price_per_hour_usd = 1}

StoragePageCatalogs ==
  {s \in SeqsUpTo(StorageSeeds, MaxCatalog) :
     /\ Len(s) = MaxCatalog
     /\ s[1].capacity_price = 1
     /\ s[1].storage_class = "STANDARD"
     /\ s[MaxCatalog].capacity_price = NULL
     /\ s[MaxCatalog].service_name = "blob"}

InitVMPage ==
  /\ vmStore \in PageCatalogs
  /\ storageStore = <<>>
  /\ client = MountedVMPage
  /\ response = VMPageView(MountedVMPage)

InitStoragePage ==
  /\ vmStore = <<>>
  /\ storageStore \in StoragePageCatalogs
  /\ client = MountedStoragePage
  /\ response = StoragePageView(MountedStoragePage)

NextVMPage ==
  \/ clearFilters
  \/ \E page \in PageNumbers : handlePageChange(page)
  \/ \E size \in PageSizeOptions : handlePageSizeChange(size)
  \/ \E value \in {"all", "AWS"} : handleFilterChange("provider", value)
  \/ \E value \in {NULL, 1} : handleFilterChange("minPrice", value)
  \/ \E column \in VMTableColumns \cup StorageTableColumns, firstSortDir \in {"asc", "desc"} :
       onSortingChange(column, firstSortDir)
  \/ \E key \in QueryKeys : VMDataArrives(key)
  \/ \E filters \in FilterStates : VMStatsArrive(filters)
  \/ VMStaleTimeElapses

SpecVMPage == InitVMPage /\ [][NextVMPage]_vars

NextPages ==
  \/ NextVMPage
  \/ \E key \in StorageQueryKeys : StorageDataArrives(key)
  \/ \E filters \in StorageFilterStates : StorageStatsArrive(filters)
  \/ StorageStaleTimeElapses

SpecPages == (InitVMPage \/ InitStoragePage) /\ [][NextPages]_vars

(* The hooks of the dashboard tables: useVMComparisonData and              *)
(* useStorageComparisonData, each with its query key and the request its   *)
(* queryFn sends.  An absent provider or region list is the empty set.     *)
comparisonQueryKey(providers, regions, limit) ==
  [providers |-> providers, regions |-> regions, limit |-> limit]

fetchVMComparison(providers, regions, limit) ==
  [limit |-> limit, providers |-> providers, regions |-> regions]

ComparisonHookArgs ==
  [providers : {{}, {"AWS"}, {"AWS", "GCP"}}, regions : {{}, {"asia"}},
   limit : {DashboardLimitStorage, DashboardLimitVM}]

(* The keys of the hooks do not depend on the state of the page: they are *)
(* compared on the page as it is mounted.                                 *)
KeysTellRequestsApart ==
  (client.session = "virtual-machines" /\ client.clicks = 0) =>
    /\ \A a, b \in QueryKeys :
         fetchVMData(a.page, a.pageSize, a.filters, a.sorting)
             # fetchVMData(b.page, b.pageSize, b.filters, b.sorting)
           => vmQueryKey(a.page, a.pageSize, a.filters, a.sorting)
                # vmQueryKey(b.page, b.pageSize, b.filters, b.sorting)
    /\ \A a, b \in StorageHookArgs :
         fetchStorageData(a.page, a.pageSize, a.filters, a.sorting)
             # fetchStorageData(b.page, b.pageSize, b.filters, b.sorting)
           => storageQueryKey(a.page, a.pageSize, a.filters, a.sorting)
                # storageQueryKey(b.page, b.pageSize, b.filters, b.sorting)
    /\ \A a, b \in ComparisonHookArgs :
         fetchVMComparison(a.providers, a.regions, a.limit)
             # fetchVMComparison(b.providers, b.regions, b.limit)
           => comparisonQueryKey(a.providers, a.regions, a.limit)
                # comparisonQueryKey(b.providers, b.regions, b.limit)
    /\ \A f, g \in FilterStates : fetchVMStats(f) # fetchVMStats(g) => f # g

AnswerTo(selected) ==
  IF client.session = "storage"
  THEN storageGET(storageStore,
           fetchStorageData(selected.page, selected.limit, selected.filters, selected.sorting))
  ELSE virtualMachinesGET(vmStore,
           fetchVMData(selected.page, selected.limit, selected.filters, selected.sorting))

NegativePrice == -2

RawRows ==
  { [vm_name |-> "n1.std", provider_name |-> "GCP", virtual_cpu_count |-> 2, memory_gb |-> 4,
     price_per_hour_usd |-> p, region |-> "asia", os_type |-> "LINUX",
     gpu_count |-> c, gpu_name |-> n, gpu_memory |-> m] :
    p \in {NegativePrice, 0, 1}, c \in {0, 1}, n \in {NullStr, "", "T4"}, m \in {0, 16} }

ValidationError(field) == [op |-> "ValidationError", field |-> field]

GpuAbsent(row) == row.gpu_count = 0 /\ row.gpu_name \in {NullStr, ""} /\ row.gpu_memory = 0

GpuPresent(row) == row.gpu_count > 0 /\ row.gpu_name \notin {NullStr, ""} /\ row.gpu_memory > 0

(* a normalizer that maps every row and validates nothing *)
NormalizeUnchecked(raw) == [op |-> "offer", offer |-> raw]

Normalize(raw) ==
  IF raw.price_per_hour_usd < 0 THEN ValidationError("price_per_hour_usd")
  ELSE IF ~(GpuAbsent(raw) \/ GpuPresent(raw)) THEN ValidationError("gpu_count")
  ELSE [op |-> "offer", offer |-> raw]

PipelineLoad(raw) ==
  /\ Len(vmStore) < MaxCatalog
  /\ LET result == Normalize(raw)
     IN IF result.op = "offer"
        THEN /\ vmStore' = Append(vmStore, result.offer)
             /\ response' = [op |-> "pipeline-insert"]
        ELSE /\ vmStore' = vmStore
             /\ response' = result
  /\ UNCHANGED <<storageStore, client>>

InitPipeline ==
  /\ vmStore = <<>>
  /\ storageStore = <<>>
  /\ response = NoResponse
  /\ client = NoClient

NextPipeline ==
  \/ \E raw \in RawRows : PipelineLoad(raw)
  \/ \E page \in PageNumbers, sortOrder \in {"asc", "desc"} :
       VirtualMachinesGET([NoVMQuery EXCEPT !.page = page, !.limit = 1,
                                            !.sortOrder = sortOrder])

SpecPipeline == InitPipeline /\ [][NextPipeline]_vars

(* C16: every offer in the table, and every offer an endpoint returns, has *)
(* a price that is not negative and GPU fields that are zero/absent        *)
(* together: no GPU, no name and no GPU memory, or all three.              *)
ComputeOfferInvariant(row) ==
  /\ row.price_per_hour_usd >= 0
  /\ (row.gpu_count = 0) <=> (row.gpu_name \in {NullStr, ""} /\ row.gpu_memory = 0)
  /\ (row.gpu_count = 0) <=> (row.gpu_name \in {NullStr, ""} \/ row.gpu_memory = 0)

Permutations(S) ==
  {t \in [1 .. Cardinality(S) -> S] : \A i, j \in DOMAIN t : t[i] = t[j] => i = j}

(* the orders of the rows ids that ORDER BY cmp allows *)
OrderByResults(store, ids, cmp) ==
  {t \in Permutations(ids) :
     \A i, j \in DOMAIN t : i < j => Compare(cmp, store[t[i]], store[t[j]]) <= 0}

PagesOf(store, ids, q, defaultSortBy) ==
  LET limit == ParseOr(q.limit, DefaultPageLimit)
      sortBy == IF SuppliedStr(q.sortBy) THEN q.sortBy ELSE defaultSortBy
      sortOrder == IF SuppliedStr(q.sortOrder) THEN q.sortOrder ELSE "asc"
      totalPages == Ceil(Cardinality(ids), limit)
  IN {[page \in 1 .. totalPages |-> Take(Skip(orders[page], (page - 1) * limit), limit)] :
        orders \in [1 .. totalPages -> OrderByResults(store, ids, OrderBy(sortBy, sortOrder))]}

VirtualMachinesPages(q) ==
  /\ LET ids == {i \in DOMAIN vmStore : vmWhere(vmStore[i], q)}
     IN \E pages \in PagesOf(vmStore, ids, q, "price_per_hour_usd") :
          response' = [op |-> "virtual-machines-pages", query |-> q, matching |-> ids,
                       pages |-> pages]
  /\ UNCHANGED <<vmStore, storageStore, client>>

StoragePages(q) ==
  /\ LET ids == {i \in DOMAIN storageStore : storageWhere(storageStore[i], q)}
     IN \E pages \in PagesOf(storageStore, ids, q, "capacity_price") :
          response' = [op |-> "storage-pages", query |-> q, matching |-> ids, pages |-> pages]
  /\ UNCHANGED <<vmStore, storageStore, client>>

NextPaging ==
  \/ \E f \in VMFilterChoices, limit \in 1 .. MaxLimit :
       VirtualMachinesPages([f EXCEPT !.limit = limit])
  \/ \E q \in StorageQueryChoices, limit \in 1 .. MaxLimit :
       StoragePages([q EXCEPT !.limit = limit])

SpecPaging == InitList /\ [][NextPaging]_vars

(* C21: over the pages 1..totalPages of one list, every matching row is on *)
(* exactly one page, at one place.                                         *)
PlacesOf(pages, id) ==
  {pk \in (DOMAIN pages) \X (1 .. MaxLimit) : pk[2] <= Len(pages[pk[1]]) /\ pages[pk[1]][pk[2]] = id}

C21_EveryRowOnce ==
  response.op \in {"virtual-machines-pages", "storage-pages"} =>
    \A id \in response.matching : Cardinality(PlacesOf(response.pages, id)) = 1

(***************************************************************************)
(* The pages and their handlers.                                           *)
(***************************************************************************)
ResettingHandler ==
  \/ clearFilters
  \/ \E size \in PageSizeOptions : handlePageSizeChange(size)
  \/ \E value \in {"all", "AWS"} : handleFilterChange("provider", value)
  \/ \E value \in {NULL, 1} : handleFilterChange("minPrice", value)
  \/ \E column \in VMTableColumns \cup StorageTableColumns, firstSortDir \in {"asc", "desc"} :
       onSortingChange(column, firstSortDir)

RequestedPage(c) ==
  IF c.queries[KeyOf(c)].fetching THEN c.queries[KeyOf(c)].request.page ELSE c.pagination.page

(* C22: on both pages a filter change, clearFilters, a sorting change and  *)
(* a page-size change leave the page at 1 and the next request asks for    *)
(* page 1; a page change sets the page and leaves filters, sorting and     *)
(* page size as they were; and no other step moves the page.               *)
C22_PageResetsToOne ==
  [][ /\ ResettingHandler =>
           /\ client'.pagination.page = 1
           /\ RequestedPage(client') = 1
      /\ \A page \in PageNumbers :
           handlePageChange(page) =>
             /\ client'.pagination.page = page
             /\ client'.filters = client.filters
             /\ client'.sorting = client.sorting
             /\ client'.pagination.limit = client.pagination.limit
      /\ (client.session \in PageSessions
            /\ client'.pagination.page # client.pagination.page) =>
           \/ client'.pagination.page = 1
           \/ \E page \in PageNumbers : handlePageChange(page) ]_vars

C22_Witness ==
  /\ client.session = "storage"
  /\ client.clicks = 2
  /\ client.pagination.page = 1
  /\ client.pagination.limit = MaxLimit
  /\ \E key \in StorageQueryKeys :
       key.page = 2 /\ key.pageSize = InitialPageSize /\ client.queries[key].hasData

(* C23: on either page the sortBy of the page is a column of the table of  *)
(* its list endpoint, a DataTable whose sort is cleared leaves the page    *)
(* with its own default sorting, and the page never shows the error of a   *)
(* failed request.                                                         *)
C23_SortByIsColumnOfTable ==
  /\ client.session = "virtual-machines" =>
       /\ client.sorting.sortBy \in OnDemandVMPricingColumns
       /\ (Len(client.sortingState) = 0 => client.sorting = InitialSorting)
       /\ ~response.error
  /\ client.session = "storage" =>
       /\ client.sorting.sortBy \in StoragePricingColumns
       /\ (Len(client.sortingState) = 0 => client.sorting = StorageInitialSorting)
       /\ ~response.error

(***************************************************************************)
(* GET /api/dashboard/regional-pricing: the average price of every         *)
(* provider in every region, the regions with at least two providers, the  *)
(* most represented first, five at most.                                   *)
(***************************************************************************)
MaxRegionalRows == 4

(* prisma/schema.prisma: ORDER BY on an enum column follows the order of   *)
(* its declaration.                                                        *)
RegionEnum ==
  <<"north_america", "south_america", "europe", "asia", "africa", "oceania", "antarctica">>

REGION_DISPLAY_NAMES(region) ==
  CASE region = "north_america" -> "North America"
    [] region = "south_america" -> "South America"
    [] region = "europe" -> "Europe"
    [] region = "asia" -> "Asia"
    [] region = "africa" -> "Africa"
    [] region = "oceania" -> "Oceania"
    [] region = "antarctica" -> "Antarctica"

(* AVG(price_per_hour_usd) of the group (provider_name, region) *)
RegionalAverage(store, provider, region) ==
  LET rows == SelectSeq(store, LAMBDA r : r.provider_name = provider /\ r.region = region)
  IN AvgOf([i \in DOMAIN rows |-> rows[i].price_per_hour_usd])

(* ROUND(x::numeric, 4): to the nearest ten-thousandth, a half upward *)
Round4(x) == Rat((2 * x.n * 10000 + x.d) \div (2 * x.d), 10000)

(* the reduce over the rows of the query: one entry per region, the price  *)
(* of a provider without a group stays 0, count is the number of groups    *)
pricingByRegion(store, region) ==
  LET price(provider) ==
        IF RegionalAverage(store, provider, region) = NullRat THEN ZeroRat
        ELSE Round4(RegionalAverage(store, provider, region))
  IN [region |-> REGION_DISPLAY_NAMES(region),
      aws_price |-> price("AWS"), azure_price |-> price("AZURE"), gcp_price |-> price("GCP"),
      count |-> Cardinality({provider \in Providers :
                               RegionalAverage(store, provider, region) # NullRat})]

regionalPricingGET(store) ==
  LET regions == SelectSeq(RegionEnum, LAMBDA region :
                             \E i \in DOMAIN store : store[i].region = region)
      entries == [i \in DOMAIN regions |-> pricingByRegion(store, regions[i])]
      formattedData == Take(StableSort(SelectSeq(entries, LAMBDA item : item.count >= 2),
                                       "count desc"), 5)
  IN [op |-> "regional-pricing", status |-> 200, data |-> formattedData]

RegionalPricingGET ==
  /\ response' = regionalPricingGET(vmStore)
  /\ UNCHANGED <<vmStore, storageStore, client>>

RegionalOffers == {r \in OnDemandVMPricing : r.price_per_hour_usd \in {1, 2}}

InitRegional ==
  /\ vmStore \in SeqsUpTo(RegionalOffers, MaxRegionalRows)
  /\ storageStore = <<>>
  /\ response = NoResponse
  /\ client = NoClient

NextRegional == RegionalPricingGET

SpecRegional == InitRegional /\ [][NextRegional]_vars

RegionOfDisplayName(name) == CHOOSE i \in DOMAIN RegionEnum : REGION_DISPLAY_NAMES(RegionEnum[i]) = name

(* C24: the answer holds at most 5 regions, each once, each with offers of *)
(* at least 2 providers, the regions with more providers first; and for a  *)
(* provider with offers in a returned region the price field is the        *)
(* average price of these offers.                                          *)
C24_RegionalPricing ==
  response.op = "regional-pricing" =>
    LET data == response.data
        offersOf(provider, item) ==
          RegionalAverage(vmStore, provider, RegionEnum[RegionOfDisplayName(item.region)])
    IN /\ Len(data) <= 5
       /\ \A i, j \in DOMAIN data : i < j =>
            data[i].region # data[j].region /\ data[i].count >= data[j].count
       /\ \A i \in DOMAIN data :
            /\ Cardinality({provider \in Providers : offersOf(provider, data[i]) # NullRat}) >= 2
            /\ offersOf("AWS", data[i]) # NullRat => data[i].aws_price = offersOf("AWS", data[i])
            /\ offersOf("AZURE", data[i]) # NullRat =>
                 data[i].azure_price = offersOf("AZURE", data[i])
            /\ offersOf("GCP", data[i]) # NullRat => data[i].gcp_price = offersOf("GCP", data[i])

(* C25: on the overview card no provider carries both badges, each badge   *)
(* is on one provider at most, a provider that is both the cheapest and    *)
(* the most expensive carries LOWEST COST only, and a single provider      *)
(* carries no badge.                                                       *)
C25_BadgesExclusive ==
  (response.op = "overview-card" /\ response.card.branch = "data") =>
    LET card == response.card
    IN /\ card.isLowest \cap card.isHighest = {}
       /\ Cardinality(card.isLowest) <= 1
       /\ Cardinality(card.isHighest) <= 1
       /\ (card.cheapestProvider = card.mostExpensiveProvider /\ Len(card.order) > 1) =>
            card.isLowest = {card.cheapestProvider} /\ card.isHighest = {}
       /\ (card.cheapestProvider # card.mostExpensiveProvider) =>
            card.isLowest = {card.cheapestProvider}
              /\ card.isHighest = {card.mostExpensiveProvider}
       /\ Len(card.order) = 1 => card.isLowest = {} /\ card.isHighest = {}

C25_Witness ==
  /\ response.op = "overview-card"
  /\ response.card.branch = "data"
  /\ Len(response.card.order) = 2
  /\ response.card.cheapestProvider = response.card.mostExpensiveProvider
  /\ response.card.isLowest # {}

(***************************************************************************)
(* The comparison endpoints with provider and region filters and a limit.  *)
(***************************************************************************)
ComparisonProviders == {{}, {"AWS"}, {"AZURE", "GCP"}}

ComparisonRegions == {{}, {"asia"}}

ComparisonLimits == (1 .. MaxLimit) \cup {DashboardLimitVM}

ComparisonStorage ==
  {r \in StoragePricing : r.service_name = "blob" /\ r.capacity_price \in {NULL, 1, 2}}

InitComparison ==
  /\ \/ vmStore \in SeqsUpTo(ListOffers, MaxVMs) /\ storageStore = <<>>
     \/ vmStore = <<>> /\ storageStore \in SeqsUpTo(ComparisonStorage, MaxStorage)
  /\ response = NoResponse
  /\ client = NoClient

NextComparison ==
  \/ \E providers \in ComparisonProviders, regions \in ComparisonRegions,
        limit \in ComparisonLimits : VMComparisonGET(providers, regions, limit)
  \/ \E providers \in ComparisonProviders, regions \in ComparisonRegions,
        limit \in ComparisonLimits : StorageComparisonGET(providers, regions, limit)

SpecComparison == InitComparison /\ [][NextComparison]_vars

(* the rows an answer may draw from: those the filters of the request allow *)
Allowed(store) ==
  {k \in DOMAIN store :
     /\ response.providers = {} \/ store[k].provider_name \in response.providers
     /\ response.regions = {} \/ store[k].region \in response.regions}

(* data returns rows of the set ids, each once, and leaves out no row of   *)
(* ids that is cheaper than a returned one                                 *)
CheapestOf(store, ids, data, price) ==
  \E f \in [DOMAIN data -> ids] :
    /\ \A i, j \in DOMAIN data : f[i] = f[j] => i = j
    /\ \A i \in DOMAIN data :
         /\ data[i].provider = store[f[i]].provider_name
         /\ data[i].region = store[f[i]].region
         /\ data[i][price] = store[f[i]][price]
    /\ \A k \in ids \ {f[i] : i \in DOMAIN data} :
         \A i \in DOMAIN data : data[i][price] <= store[k][price]

(* C26: a comparison answer holds min(limit, number of matching offers)    *)
(* offers, all of them matching the provider and region filters, in        *)
(* non-decreasing price order, and none left out is cheaper than one       *)
(* returned; the storage answer is drawn from the offers with a capacity   *)
(* price only.                                                             *)
C26_CheapestMatchingOffers ==
  /\ response.op = "vm-comparison" =>
       LET ids == Allowed(vmStore)
           data == response.data
       IN /\ Len(data) = Least(response.limit, Cardinality(ids))
          /\ \A i, j \in DOMAIN data :
               i < j => data[i].price_per_hour_usd <= data[j].price_per_hour_usd
          /\ CheapestOf(vmStore, ids, data, "price_per_hour_usd")
  /\ response.op = "storage-comparison" =>
       LET ids == {k \in Allowed(storageStore) : storageStore[k].capacity_price # NULL}
           data == response.data
       IN /\ Len(data) = Least(response.limit, Cardinality(ids))
          /\ \A i, j \in DOMAIN data :
               i < j => data[i].capacity_price <= data[j].capacity_price
          /\ CheapestOf(storageStore, ids, data, "capacity_price")

C26_Witness ==
  /\ response.op = "vm-comparison"
  /\ response.providers = {"AZURE", "GCP"}
  /\ response.limit = 1
  /\ Len(response.data) = 1
  /\ Cardinality(Allowed(vmStore)) = 2
  /\ Len(vmStore) = 3
  /\ vmStore[1].price_per_hour_usd > response.data[1].price_per_hour_usd

====
